---------------------------- MODULE Spec2Model ----------------------------
(***************************************************************************)
(* A model of the tezsign request/response engine: the frame codec         *)
(* (broker/wire.go), the resynchronising stash (broker/stash.go), the      *)
(* broker (broker.go: workers, Request, Stop) and the keychain watermark.  *)
(*                                                                         *)
(* The module holds several specifications over one set of variables; each *)
(* specification moves only the variables of its component and leaves the  *)
(* others at their initial value.                                          *)
(*   SpecStash    : stash.Write / stash.ReadPayload over byte sequences    *)
(*   SpecKeychain : keychain sign with the per-kind watermark              *)
(* and, for the broker, one specification per scenario (SpecRequest,       *)
(* SpecLifecycle, SpecFlood, SpecSize, SpecHeader and the others), each    *)
(* introduced where its Next is defined.                                   *)
(***************************************************************************)
EXTENDS Integers, Sequences, FiniteSets, TLC

VARIABLES
    \* ---- stash (broker/stash.go) ----
    buf,        \* stash.buf: the buffered bytes, oldest first
    capacity,   \* stash.capacity
    res,        \* what the last ReadPayload call returned
    hWritten,   \* history: every byte handed to stash.Write, in order
    hConsumed,  \* history: number of bytes removed from the head of the stream
    hFrame,     \* history: the frame written by newMessage, with its place
    hTrail,     \* history: the last operations, for the round-trip claim
    hGot        \* history: the frames ReadPayload returned, with their place

stashVars == <<buf, capacity, res, hWritten, hConsumed, hFrame, hTrail, hGot>>

VARIABLES
    \* ---- keychain (spec section 4.9) ----
    lockState,  \* per key: UNLOCKED, LOCKED or CORRUPTED
    watermark,  \* per key and kind: the stored <<level, round>>
    mutex,      \* per key: the sign call holding the key's mutex, or "free"
    signer,     \* per sign call in flight: its place, its input, its result
    hSigns,     \* history: per key and kind, how many signs succeeded
    hLastSign,  \* history: per key and kind, <<level, round>> of the last success
    hCalls      \* history: number of keychain operations called

keyVars == <<lockState, watermark, mutex, signer, hSigns, hLastSign, hCalls>>

VARIABLES
    \* ---- broker (broker.go) ----
    ctxDone,              \* b.ctx is cancelled
    crashed,              \* the process died of a panic nobody recovered
    waiters,              \* b.waiters: the registered IDs, each with its staleness
    slot,                 \* per ID: the waiter's one-place channel
    unconfirmedRequests,  \* b.unconfirmedRequests: ID -> payload
    processingRequests,   \* b.processingRequests: the IDs in it
    writeChan,            \* b.writeChan: frames waiting for the writer loop
    workChan,             \* b.workChan: work items waiting for a worker
    workChanClosed,       \* close(b.workChan) has run
    worker,               \* per worker goroutine: its place in handleWork
    caller,               \* per caller of Request: its place and its context
    readLoop,             \* "run" or "exited" (readLoopDone closed)
    writerLoop,           \* the writer goroutine: its place and its frame
    reaper,               \* "run" or "exited" (reaperDone closed)
    stop,                 \* the caller of Stop and Stop's waiting goroutine
    hEnq,                 \* history: frame -> times it was put on writeChan
    hHandler,             \* history: ID -> times the handler was invoked
    hDelivered,           \* history: ID -> payloads put into its slot
    hRecv,                \* history: number of frames the read loop decoded
    hTaken,               \* history: work item -> times a worker received it
    hRetryHits,           \* history: ID -> retry frames handled while unconfirmed
    hOverlap,             \* history: IDs whose request frames met in the workers
    hPanicked,            \* history: IDs whose handler panicked
    hAtStop               \* history: callers inside Request when Stop cancelled

brokerVars ==
    <<ctxDone, crashed, waiters, slot, unconfirmedRequests, processingRequests,
      writeChan, workChan, workChanClosed, worker, caller, readLoop,
      writerLoop, reaper, stop, hEnq, hHandler, hDelivered, hRecv, hTaken,
      hRetryHits, hOverlap, hPanicked, hAtStop>>

VARIABLES
    \* ---- broker (broker.go): health of the loops ----
    done,                 \* b.done, the channel Done() returns, is closed
    monitor,              \* the goroutine New starts to watch the loops
    consecutiveErrors,    \* consecutiveErrors of the read loop and the writer loop
    hStopHealthy,         \* history: both loops were running when Stop cancelled
    backoff,              \* backoff of the read loop and the writer loop, in ms
    hFailsInRow           \* history: per loop, the reads (writes) that failed
                          \* since the last one that returned no error

lifeVars == <<done, monitor, consecutiveErrors, hStopHealthy, backoff, hFailsInRow>>

VARIABLES
    \* ---- broker (broker.go): the worker pool by itself ----
    workerCount,          \* b.workerCount
    pool,                 \* per worker goroutine: at its select or in handleWork
    queued,               \* number of work items in b.workChan
    inflight              \* history: handleWork invocations in progress

poolVars == <<workerCount, pool, queued, inflight>>

VARIABLES
    \* ---- waiterMap (broker/wire.go): the table by itself, with its times ----
    wm,                   \* the entries: ID -> createdAt
    now,                  \* the reading of the clock, time.Now()
    hReap,                \* history: the last ReapStale call, what it met and returned
    hInserted             \* history: the IDs NewWaiter has stored so far

wmVars == <<wm, now, hReap, hInserted>>

VARIABLES
    \* ---- sign payloads (keychain, DecodeAndValidateSignPayload) ----
    raw,                  \* the bytes handed to DecodeAndValidateSignPayload
    decoded               \* what the call returned, NotDecoded before it

payloadVars == <<raw, decoded>>

VARIABLES
    \* ---- HTTP front-end (app/host/http.go), POST /keys/:tz4 ----
    httpReq,              \* the request and what the remote sign call will return
    httpResp              \* the response written, NoResponse before it

httpVars == <<httpReq, httpResp>>

VARIABLES
    \* ---- FunctionFS adapter (app/gadget/ffs_adapter.go) ----
    ffs,                  \* per endpoint ("read", "write"): the call in progress
    leakedReaders,        \* the counter leakedReaders
    leakedWriters,        \* the counter leakedWriters
    hFfsCalls             \* history: per endpoint, the number of calls made

ffsVars == <<ffs, leakedReaders, leakedWriters, hFfsCalls>>

VARIABLES
    \* ---- systemd notifier (watchdog.Notifier) ----
    running,              \* Notifier.running
    pinger,               \* per pinger goroutine: its state and its context
    pingCtxDone,          \* per context: it is cancelled
    cleanup,              \* per pinger: where the call of its cleanup is
    pinged,               \* the pingers that have sent WATCHDOG=1
    hLastStart            \* history: what the last StartPinger call did

wdVars == <<running, pinger, pingCtxDone, cleanup, pinged, hLastStart>>

VARIABLES
    \* ---- broker (broker.go): a further call of Stop ----
    stopAgain             \* the caller of a second Stop and its waiting goroutine

againVars == <<stopAgain>>

\* the variables of the components that stand by themselves
sideVars == <<wmVars, payloadVars, httpVars, ffsVars, wdVars, againVars>>

\* the variables of the components other than the broker
farVars == <<stashVars, keyVars, poolVars, sideVars>>

vars == <<stashVars, keyVars, brokerVars, lifeVars, poolVars, sideVars>>

\* what a step of one of those components leaves alone
mainVars == <<stashVars, keyVars, brokerVars, lifeVars, poolVars>>
wmRest == <<mainVars, payloadVars, httpVars, ffsVars, wdVars, againVars>>
payloadRest == <<mainVars, wmVars, httpVars, ffsVars, wdVars, againVars>>
httpRest == <<mainVars, wmVars, payloadVars, ffsVars, wdVars, againVars>>
ffsRest == <<mainVars, wmVars, payloadVars, httpVars, wdVars, againVars>>
wdRest == <<mainVars, wmVars, payloadVars, httpVars, ffsVars, againVars>>

---------------------------------------------------------------------------
(* Byte helpers *)

Byte == 0..255

RECURSIVE BitXor(_, _)
\* a ^ b on non-negative integers
BitXor(a, b) ==
    IF a = 0 THEN b
    ELSE IF b = 0 THEN a
    ELSE (((a % 2) + (b % 2)) % 2) + (2 * BitXor(a \div 2, b \div 2))

RECURSIVE XorAll(_)
\* var x byte; for _, b := range s { x ^= b }
XorAll(s) == IF s = <<>> THEN 0 ELSE BitXor(Head(s), XorAll(Tail(s)))

\* s[from:to] of Go (0-based, to exclusive)
Slice(s, from, to) == SubSeq(s, from + 1, to)

\* bytes.Buffer.Next(n): the buffer after dropping min(n, Len) bytes
BufNext(b, n) == IF n >= Len(b) THEN <<>> ELSE SubSeq(b, n + 1, Len(b))

\* A uint32 is kept as its two 16-bit halves, [hi, lo]: the checker's integers
\* are 32-bit signed and cannot hold 2^32 - 1.
U32(n) == [hi |-> (n \div 65536) % 65536, lo |-> n % 65536]

\* int(u) for a uint32 u < 2^31
U32Int(u) == (u.hi * 65536) + u.lo

\* int(u) > n, for a uint32 u and 0 <= n < 2^31 (int is 64 bits wide: the
\* package converts ^uint32(0) to int, which no 32-bit build accepts)
U32Gt(u, n) == u.hi > n \div 65536 \/ (u.hi = n \div 65536 /\ u.lo > n % 65536)

\* binary.LittleEndian.Uint32
LEUint32(b) == [hi |-> b[3] + (256 * b[4]), lo |-> b[1] + (256 * b[2])]

\* binary.LittleEndian.PutUint32(uint32(n)), for an int 0 <= n < 2^31
\* the four bytes in big-endian order
BEPutUint32(n) ==
    << (n \div 16777216) % 256, (n \div 65536) % 256, (n \div 256) % 256, n % 256 >>

LEPutUint32(n) ==
    << n % 256, (n \div 256) % 256, (n \div 65536) % 256, (n \div 16777216) % 256 >>

\* n > int(^uint32(0)), for an int 0 <= n < 2^31
ExceedsUint32(n) == n \div 65536 >= 65536

\* the index (0-based) of the first c in s, -1 when there is none
IndexByte(s, c) ==
    IF \E i \in 1..Len(s) : s[i] = c
    THEN (CHOOSE i \in 1..Len(s) : s[i] = c /\ \A j \in 1..(i-1) : s[j] # c) - 1
    ELSE -1

---------------------------------------------------------------------------
(* Constants of broker/constants.go *)

KB == 1024
MB == 1048576
DEFAULT_BROKER_CAPACITY == 50 * MB
MAX_MESSAGE_PAYLOAD == DEFAULT_BROKER_CAPACITY \div 2
MagicByte == 86
HeaderLen == 1 + 1 + 16 + 4 + 1

payloadTypeUnknown == 0
payloadTypeRequest == 1
payloadTypeResponse == 2
\* the two control types are used by broker.go; their values are not in the
\* sources at hand
payloadTypeAcceptRequest == 3
payloadTypeRetry == 4

ZeroID == [i \in 1..16 |-> 0]

---------------------------------------------------------------------------
(* Frame codec, broker/wire.go *)

\* headerParity: XOR of the 22 bytes before the parity byte
headerParity(bytes22) ==
    IF Len(bytes22) # HeaderLen - 1
    THEN [p |-> 0, err |-> "ErrInvalidHeaderParity"]
    ELSE [p |-> XorAll(bytes22), err |-> "nil"]

NoHeader(e) == [err |-> e, Type |-> 0, ID |-> ZeroID, Size |-> U32(0)]

\* DecodeHeader without its comparison of the parity byte
DecodeHeaderNoParity(src) ==
    IF Len(src) < HeaderLen THEN NoHeader("ErrInvalidHeaderLength")
    ELSE IF src[1] # MagicByte THEN NoHeader("ErrInvalidHeaderBadMagic")
    ELSE [err |-> "nil", Type |-> src[2], ID |-> Slice(src, 2, 18),
          Size |-> LEUint32(Slice(src, 18, 22))]

\* DecodeHeader: length, magic, parity, then the fields
DecodeHeader(src) ==
    IF Len(src) < HeaderLen THEN NoHeader("ErrInvalidHeaderLength")
    ELSE IF src[1] # MagicByte THEN NoHeader("ErrInvalidHeaderBadMagic")
    ELSE IF src[23] # headerParity(Slice(src, 0, 22)).p
         THEN NoHeader("ErrInvalidHeaderBadMagic")
    ELSE [err |-> "nil", Type |-> src[2], ID |-> Slice(src, 2, 18),
          Size |-> LEUint32(Slice(src, 18, 22))]

\* the 22 header bytes before the parity byte, as newMessage lays them out
HeaderFields(msgType, id, payloadLen) ==
    <<MagicByte, msgType % 256>> \o id \o LEPutUint32(payloadLen)

\* newMessage: header (magic, type, id, size LE, parity) followed by the payload
newMessage(msgType, id, payload) ==
    IF ExceedsUint32(Len(payload))
    THEN [frame |-> <<>>, err |-> "ErrEncodeHeaderPayloadLarge"]
    ELSE LET h22 == HeaderFields(msgType, id, Len(payload))
         IN  [frame |-> h22 \o <<headerParity(h22).p>> \o payload, err |-> "nil"]

---------------------------------------------------------------------------
(* Stash, broker/stash.go *)

\* stash.Write: drop the overflow from the head, then append all of data
StashWrite(b, cap, data) ==
    IF Len(b) + Len(data) > cap
    THEN BufNext(b, (Len(b) + Len(data)) - cap) \o data
    ELSE b \o data

\* the number of bytes stash.Write removes from the head
StashWriteDrop(b, cap, data) ==
    IF Len(b) + Len(data) > cap
    THEN Len(b) - Len(BufNext(b, (Len(b) + Len(data)) - cap))
    ELSE 0

NoPayload(b, e) ==
    [buf |-> b, err |-> e, id |-> ZeroID, type |-> payloadTypeUnknown, payload |-> <<>>]

\* ReadPayload were it to drop a whole header's length on a header that does
\* not decode
ReadPayloadDropHeader(b) ==
    LET idx == IndexByte(b, MagicByte) IN
    IF idx < 0
    THEN NoPayload(IF Len(b) - (HeaderLen - 1) > 0
                   THEN BufNext(b, Len(b) - (HeaderLen - 1)) ELSE b,
                   "ErrNoPayloadFound")
    ELSE
      LET data == BufNext(b, idx)
          h    == DecodeHeader(data)
      IN  IF h.err # "nil" THEN NoPayload(BufNext(data, HeaderLen), "ErrInvalidPayload")
          ELSE IF U32Gt(h.Size, MAX_MESSAGE_PAYLOAD)
               THEN NoPayload(BufNext(data, HeaderLen), "ErrInvalidPayloadSize")
          ELSE IF Len(data) < HeaderLen + U32Int(h.Size)
               THEN NoPayload(data, "ErrIncompletePayload")
          ELSE [buf |-> BufNext(data, HeaderLen + U32Int(h.Size)), err |-> "nil",
                id |-> h.ID, type |-> h.Type,
                payload |-> Slice(data, HeaderLen, HeaderLen + U32Int(h.Size))]

\* stash.ReadPayload: the buffer it leaves and what it returns
\* a ReadPayload that leaves a bad header in the buffer
ReadPayloadNoResync(b) ==
    LET idx == IndexByte(b, MagicByte) IN
    IF idx < 0
    THEN NoPayload(IF Len(b) - (HeaderLen - 1) > 0
                   THEN BufNext(b, Len(b) - (HeaderLen - 1)) ELSE b,
                   "ErrNoPayloadFound")
    ELSE
      LET data == BufNext(b, idx)
          h    == DecodeHeader(data)
      IN  IF h.err # "nil" THEN NoPayload(data, "ErrInvalidPayload")
          ELSE IF U32Gt(h.Size, MAX_MESSAGE_PAYLOAD)
               THEN NoPayload(BufNext(data, HeaderLen), "ErrInvalidPayloadSize")
          ELSE IF Len(data) < HeaderLen + U32Int(h.Size)
               THEN NoPayload(data, "ErrIncompletePayload")
          ELSE [buf |-> BufNext(data, HeaderLen + U32Int(h.Size)), err |-> "nil",
                id |-> h.ID, type |-> h.Type,
                payload |-> Slice(data, HeaderLen, HeaderLen + U32Int(h.Size))]

ReadPayload(b) ==
    LET idx == IndexByte(b, MagicByte) IN
    IF idx < 0
    THEN NoPayload(IF Len(b) - (HeaderLen - 1) > 0
                   THEN BufNext(b, Len(b) - (HeaderLen - 1)) ELSE b,
                   "ErrNoPayloadFound")
    ELSE
      LET data == BufNext(b, idx)
          h    == DecodeHeader(data)
      IN  IF h.err # "nil" THEN NoPayload(BufNext(data, 1), "ErrInvalidPayload")
          ELSE IF U32Gt(h.Size, MAX_MESSAGE_PAYLOAD)
               THEN NoPayload(BufNext(data, HeaderLen), "ErrInvalidPayloadSize")
          ELSE IF Len(data) < HeaderLen + U32Int(h.Size)
               THEN NoPayload(data, "ErrIncompletePayload")
          ELSE [buf |-> BufNext(data, HeaderLen + U32Int(h.Size)), err |-> "nil",
                id |-> h.ID, type |-> h.Type,
                payload |-> Slice(data, HeaderLen, HeaderLen + U32Int(h.Size))]

---------------------------------------------------------------------------
(* Keychain and watermark, spec section 4.9. The keychain package is not    *)
(* among the sources; its sign operation is modelled from the specification *)
(* (steps 1 to 5), with the per-key mutex of section 5.                     *)

BLOCK == 17
PREATTESTATION == 18
ATTESTATION == 19
Kinds == {BLOCK, PREATTESTATION, ATTESTATION}

Keys == {"k1", "k2"}
Signers == {"s1", "s2"}
\* the levels and rounds sign payloads carry
SampleLevels == {0, 1}
SampleRounds == {0, 1}
\* the number of keychain operations (sign, lock, unlock) called in a run
MaxKeyOps == 3

\* (level, round) pairs compared in lexicographic order, strictly
\* the comparison without its strictness
WatermarkNewerOrEqual(lr, stored) ==
    lr[1] > stored[1] \/ (lr[1] = stored[1] /\ lr[2] >= stored[2])

WatermarkNewer(lr, stored) ==
    lr[1] > stored[1] \/ (lr[1] = stored[1] /\ lr[2] > stored[2])

IdleSigner == [pc |-> "idle", key |-> "", kind |-> 0, lr |-> <<0, 0>>, result |-> "none"]

NoRes == [err |-> "none", id |-> ZeroID, type |-> payloadTypeUnknown, payload |-> <<>>]
NoFrame == [pos |-> -1, type |-> 0, id |-> ZeroID, payload |-> <<>>]

StashIdle ==
    /\ buf = <<>>
    /\ capacity = DEFAULT_BROKER_CAPACITY
    /\ res = NoRes
    /\ hWritten = <<>>
    /\ hConsumed = 0
    /\ hFrame = NoFrame
    /\ hTrail = "start"
    /\ hGot = {}

KeychainIdle ==
    /\ lockState = [k \in Keys |-> "UNLOCKED"]
    /\ watermark = [k \in Keys |-> [kd \in Kinds |-> <<0, 0>>]]
    /\ mutex = [k \in Keys |-> "free"]
    /\ signer = [t \in Signers |-> IdleSigner]
    /\ hSigns = [k \in Keys |-> [kd \in Kinds |-> 0]]
    /\ hLastSign = [k \in Keys |-> [kd \in Kinds |-> <<0, 0>>]]
    /\ hCalls = 0

\* sign(payload), step 1: the payload is validated; a bad payload fails at once
SignCall(t) ==
    /\ signer[t].pc = "idle"
    /\ hCalls < MaxKeyOps
    /\ hCalls' = hCalls + 1
    /\ \/ \E k \in Keys, kd \in Kinds, l \in SampleLevels, r \in SampleRounds :
            signer' = [signer EXCEPT ![t] =
                [pc |-> "lock", key |-> k, kind |-> kd, lr |-> <<l, r>>, result |-> "none"]]
       \/ signer' = [signer EXCEPT ![t] = [IdleSigner EXCEPT !.result = "BadPayload"]]
    /\ UNCHANGED <<lockState, watermark, mutex, hSigns, hLastSign>>

\* the sign call takes the mutex of its key
SignLock(t) ==
    /\ signer[t].pc = "lock"
    /\ mutex[signer[t].key] = "free"
    /\ mutex' = [mutex EXCEPT ![signer[t].key] = t]
    /\ signer' = [signer EXCEPT ![t].pc = "check"]
    /\ UNCHANGED <<lockState, watermark, hSigns, hLastSign, hCalls>>

\* steps 2 to 4: lock state, watermark comparison, commit before signing
SignCheck(t) ==
    LET k == signer[t].key
        kd == signer[t].kind
        fail(e) == /\ signer' = [signer EXCEPT ![t] = [IdleSigner EXCEPT !.result = e]]
                   /\ mutex' = [mutex EXCEPT ![k] = "free"]
    IN
    /\ signer[t].pc = "check"
    /\ IF lockState[k] # "UNLOCKED"
       THEN fail("KeyLocked") /\ UNCHANGED <<lockState, watermark>>
       ELSE IF ~WatermarkNewer(signer[t].lr, watermark[k][kd])
       THEN fail("StaleWatermark") /\ UNCHANGED <<lockState, watermark>>
       ELSE \/ /\ watermark' = [watermark EXCEPT ![k][kd] = signer[t].lr]
               /\ signer' = [signer EXCEPT ![t].pc = "sign"]
               /\ UNCHANGED <<lockState, mutex>>
            \/ \* persisting the watermark failed
               /\ lockState' = [lockState EXCEPT ![k] = "CORRUPTED"]
               /\ fail("Corrupted")
               /\ UNCHANGED watermark
    /\ UNCHANGED <<hSigns, hLastSign, hCalls>>

\* step 5: the BLS signature is made and returned, the mutex released
SignFinish(t) ==
    LET k == signer[t].key
        kd == signer[t].kind
    IN
    /\ signer[t].pc = "sign"
    /\ signer' = [signer EXCEPT ![t] = [IdleSigner EXCEPT !.result = "signed"]]
    /\ mutex' = [mutex EXCEPT ![k] = "free"]
    /\ hSigns' = [hSigns EXCEPT ![k][kd] = @ + 1]
    /\ hLastSign' = [hLastSign EXCEPT ![k][kd] = signer[t].lr]
    /\ UNCHANGED <<lockState, watermark, hCalls>>

\* UNLOCKED -> LOCKED, explicit
LockKey(k) ==
    /\ hCalls < MaxKeyOps
    /\ hCalls' = hCalls + 1
    /\ mutex[k] = "free"
    /\ lockState[k] = "UNLOCKED"
    /\ lockState' = [lockState EXCEPT ![k] = "LOCKED"]
    /\ UNCHANGED <<watermark, mutex, signer, hSigns, hLastSign>>

\* an unlock that would take a key out of any state
UnlockKeyAny(k) ==
    /\ hCalls < MaxKeyOps
    /\ hCalls' = hCalls + 1
    /\ mutex[k] = "free"
    /\ lockState[k] # "UNLOCKED"
    /\ lockState' = [lockState EXCEPT ![k] = "UNLOCKED"]
    /\ UNCHANGED <<watermark, mutex, signer, hSigns, hLastSign>>

\* LOCKED -> UNLOCKED, after the password check
UnlockKey(k) ==
    /\ hCalls < MaxKeyOps
    /\ hCalls' = hCalls + 1
    /\ mutex[k] = "free"
    /\ lockState[k] = "LOCKED"
    /\ lockState' = [lockState EXCEPT ![k] = "UNLOCKED"]
    /\ UNCHANGED <<watermark, mutex, signer, hSigns, hLastSign>>

---------------------------------------------------------------------------
(* The components that stand by themselves, before their first call *)

NoReap == [ttl |-> -1, n |-> 0, met |-> {}, ages |-> {}]

\* an empty waiterMap
WmIdle ==
    /\ wm = [x \in {} |-> 0]
    /\ now = 0
    /\ hReap = NoReap
    /\ hInserted = {}

NotDecoded == [kind |-> 0, level |-> 0, round |-> 0, signBytes |-> <<>>, err |-> "none"]

\* no sign payload yet
PayloadIdle ==
    /\ raw = <<>>
    /\ decoded = NotDecoded

NoRequest ==
    [tz4 |-> "", bodyOk |-> FALSE, hexOk |-> FALSE, outcome |-> "none", code |-> 0,
     sigLen |-> 0]
NoResponse == [status |-> 0, body |-> "none"]

\* no HTTP request yet
HttpIdle ==
    /\ httpReq = NoRequest
    /\ httpResp = NoResponse

Endpoints == {"read", "write"}

\* pc: where ReadContext / WriteContext is; ctxDone: its ctx is cancelled;
\* sys: its goroutine is in the syscall ("blocked") or has sent its result;
\* chan: the one-place channel; ret: what the call returned
NoCall ==
    [pc |-> "idle", ctxDone |-> FALSE, sys |-> "none", chan |-> <<>>,
     ret |-> [n |-> 0, err |-> "none"]]

\* no call of the adapter yet
FfsIdle ==
    /\ ffs = [k \in Endpoints |-> NoCall]
    /\ leakedReaders = 0
    /\ leakedWriters = 0
    /\ hFfsCalls = [k \in Endpoints |-> 0]

\* pinger goroutines started in a run
MaxPingers == 2

Pingers == 1..MaxPingers

\* the contexts StartPinger is called with
Contexts == {1, 2}

\* a Notifier just made: no pinger, no context cancelled
WdIdle ==
    /\ running = FALSE
    /\ pinger = [p \in Pingers |-> [state |-> "none", ctx |-> 1]]
    /\ pingCtxDone = [c \in Contexts |-> FALSE]
    /\ cleanup = [p \in Pingers |-> "idle"]
    /\ pinged = {}
    /\ hLastStart = "none"

\* Stop has not been called a second time
AgainIdle == stopAgain = [pc |-> "idle", closer |-> "none", how |-> ""]

SideIdle == WmIdle /\ PayloadIdle /\ HttpIdle /\ FfsIdle /\ WdIdle /\ AgainIdle

---------------------------------------------------------------------------
(* The worker pool of broker.go by itself: New with WithWorkerCount,        *)
(* startWorkers, and work items counted rather than told apart.             *)

defaultWorkerCount == 8

\* WithWorkerCount(n) applied to the options' workerCount
WithWorkerCount(current, n) == IF n > 0 THEN n ELSE current

\* the pool of a broker no specification about the pool looks at
PoolIdle ==
    /\ workerCount = defaultWorkerCount
    /\ pool = [i \in 1..defaultWorkerCount |-> "select"]
    /\ queued = 0
    /\ inflight = 0

---------------------------------------------------------------------------
(* Broker, broker.go. Message IDs are small integers standing for the      *)
(* 16 random bytes, payloads are short strings, "" the nil payload.        *)

workQueueSize == 64
WriteChanCap == 32

\* the loops' backoff, in milliseconds
initialBackoff == 10
maxBackoff == 1000
backoffFactor == 2

\* backoff *= backoffFactor, capped at maxBackoff
NextBackoff(d) ==
    IF d * backoffFactor > maxBackoff THEN maxBackoff ELSE d * backoffFactor

Workers == {"w1", "w2"}
Callers == {"c1", "c2"}
MsgIDs == {1, 2}
PeerIDs == {9}
ReqPayloads == {"q"}
RespPayloads == {"r1", "r2"}
MaxInbound == 2

Frame(t, id, p) == [type |-> t, id |-> id, payload |-> p]

\* len(payload) of the byte slice a payload name stands for: "" is nil,
\* "max" a slice of MAX_MESSAGE_PAYLOAD bytes, "over" one byte more, any
\* other name a single byte
PayloadLen(p) ==
    CASE p = "" -> 0
      [] p = "max" -> MAX_MESSAGE_PAYLOAD
      [] p = "over" -> MAX_MESSAGE_PAYLOAD + 1
      [] OTHER -> 1

Count(h, k) == IF k \in DOMAIN h THEN h[k] ELSE 0
Bump(h, k) == IF k \in DOMAIN h THEN [h EXCEPT ![k] = @ + 1] ELSE h @@ (k :> 1)
MapDelete(m, k) == [x \in DOMAIN m \ {k} |-> m[x]]
MapStore(m, k, v) == [x \in DOMAIN m \cup {k} |-> IF x = k THEN v ELSE m[x]]
Empty == [x \in {} |-> 0]

IdleWorker == [pc |-> "idle", type |-> payloadTypeUnknown, id |-> 0,
               payload |-> "", todo |-> Empty]
IdleCaller == [pc |-> "idle", id |-> 0, payload |-> "", ctxDone |-> FALSE,
               resp |-> "", err |-> ""]
IdleWriter == [pc |-> "idle", data |-> Frame(payloadTypeUnknown, 0, "")]
IdleStop == [pc |-> "idle", closer |-> "none", how |-> ""]

BrokerIdle ==
    /\ ctxDone = FALSE
    /\ crashed = FALSE
    /\ waiters = Empty
    /\ slot = [id \in MsgIDs |-> <<>>]
    /\ unconfirmedRequests = Empty
    /\ processingRequests = {}
    /\ writeChan = <<>>
    /\ workChan = <<>>
    /\ workChanClosed = FALSE
    /\ worker = [w \in Workers |-> IdleWorker]
    /\ caller = [c \in Callers |-> IdleCaller]
    /\ readLoop = "run"
    /\ writerLoop = IdleWriter
    /\ reaper = "run"
    /\ stop = IdleStop
    /\ hEnq = Empty
    /\ hHandler = Empty
    /\ hDelivered = Empty
    /\ hRecv = 0
    /\ hTaken = Empty
    /\ hRetryHits = Empty
    /\ hOverlap = {}
    /\ hPanicked = {}
    /\ hAtStop = {}
    /\ done = FALSE
    /\ monitor = "select"
    /\ consecutiveErrors = [read |-> 0, write |-> 0]
    /\ hStopHealthy = FALSE
    /\ backoff = [read |-> initialBackoff, write |-> initialBackoff]
    /\ hFailsInRow = [read |-> 0, write |-> 0]

\* a lookup that leaves the entry in the map
LoadOnly(ws, id) == [ok |-> id \in DOMAIN ws, ws |-> ws]

\* waiterMap.LoadAndDelete: atomically remove the entry and hand it out
LoadAndDelete(ws, id) == [ok |-> id \in DOMAIN ws, ws |-> MapDelete(ws, id)]

\* requestMap.HasRequest
HasRequest(m, id) == id \in m

\* waiterMap.ReapStale: delete the entries older than the TTL
ReapStale(ws) == [x \in {y \in DOMAIN ws : ~ws[y]} |-> ws[x]]

\* the error of newMessage for a payload of this length: the encoder refuses
\* what does not fit the header's uint32 and nothing else
newMessageErr(payloadLen) ==
    IF ExceedsUint32(payloadLen) THEN "ErrEncodeHeaderPayloadLarge" ELSE "nil"

\* writeFrame: newMessage, then the select over writeChan, the caller's
\* context and b.ctx. out is the returned error.
writeFrame(callerCtxDone, f, out) ==
    \/ /\ out = newMessageErr(PayloadLen(f.payload))
       /\ out # "nil"
       /\ UNCHANGED <<writeChan, hEnq>>
    \/ /\ out = "nil"
       /\ newMessageErr(PayloadLen(f.payload)) = "nil"
       /\ Len(writeChan) < WriteChanCap
       /\ writeChan' = Append(writeChan, f)
       /\ hEnq' = Bump(hEnq, f)
    \/ /\ out = "ctx.Err"
       /\ newMessageErr(PayloadLen(f.payload)) = "nil"
       /\ callerCtxDone
       /\ UNCHANGED <<writeChan, hEnq>>
    \/ /\ out = "io.EOF"
       /\ newMessageErr(PayloadLen(f.payload)) = "nil"
       /\ ctxDone
       /\ UNCHANGED <<writeChan, hEnq>>

WriteOutcomes == {"nil", "ctx.Err", "io.EOF", "ErrEncodeHeaderPayloadLarge"}

otherVars == <<farVars, lifeVars>>

\* histories only the worker's receive writes
takeHist == <<hTaken, hRetryHits>>

RECURSIVE BumpAll(_, _)
BumpAll(h, ks) ==
    IF ks = {} THEN h
    ELSE LET k == CHOOSE x \in ks : TRUE IN BumpAll(Bump(h, k), ks \ {k})

\* ---- worker goroutines: startWorkers and handleWork ----

\* the request frames a worker holds whose handler has not returned
InRequest(w, id) ==
    /\ worker[w].id = id
    /\ worker[w].pc \in {"req_store", "req_accept", "req_call",
                         "in_handler", "hung"}

\* the worker's select received a work item and handleWork ran up to its
\* first access to what the goroutines share:
\*   response: b.waiters.LoadAndDelete(w.id)
\*   request : b.processingRequests.HasRequest(w.id)
\*   accept  : b.unconfirmedRequests.Delete(w.id)
\*   retry   : b.unconfirmedRequests.All()
\*   other   : logged and forgotten
WorkerTake(w) ==
    /\ ~crashed
    /\ worker[w].pc = "idle"
    /\ workChan # <<>>
    /\ LET wk == Head(workChan)
           held == [pc |-> "idle", type |-> wk.type, id |-> wk.id,
                    payload |-> wk.payload, todo |-> Empty]
           r == LoadAndDelete(waiters, wk.id)
       IN /\ workChan' = Tail(workChan)
          /\ hTaken' = Bump(hTaken, wk)
          /\ hRetryHits' = IF wk.type = payloadTypeRetry
                            THEN BumpAll(hRetryHits, DOMAIN unconfirmedRequests)
                            ELSE hRetryHits
          /\ CASE wk.type = payloadTypeResponse ->
                   /\ waiters' = r.ws
                   /\ worker' = [worker EXCEPT ![w] =
                          IF r.ok THEN [held EXCEPT !.pc = "resp_send"]
                          ELSE IdleWorker]
                   /\ UNCHANGED <<unconfirmedRequests, hOverlap>>
               [] wk.type = payloadTypeRequest ->
                   /\ worker' = [worker EXCEPT ![w] =
                          IF HasRequest(processingRequests, wk.id) THEN IdleWorker
                          ELSE [held EXCEPT !.pc = "req_store"]]
                   /\ hOverlap' = IF \E o \in Workers \ {w} : InRequest(o, wk.id)
                                  THEN hOverlap \cup {wk.id} ELSE hOverlap
                   /\ UNCHANGED <<waiters, unconfirmedRequests>>
               [] wk.type = payloadTypeAcceptRequest ->
                   /\ unconfirmedRequests' = MapDelete(unconfirmedRequests, wk.id)
                   /\ worker' = [worker EXCEPT ![w] = IdleWorker]
                   /\ UNCHANGED <<waiters, hOverlap>>
               [] wk.type = payloadTypeRetry ->
                   /\ worker' = [worker EXCEPT ![w] =
                          IF DOMAIN unconfirmedRequests = {} THEN IdleWorker
                          ELSE [held EXCEPT !.pc = "retry_send",
                                            !.todo = unconfirmedRequests]]
                   /\ UNCHANGED <<waiters, unconfirmedRequests, hOverlap>>
               [] OTHER ->
                   /\ worker' = [worker EXCEPT ![w] = IdleWorker]
                   /\ UNCHANGED <<waiters, unconfirmedRequests, hOverlap>>
    /\ UNCHANGED <<ctxDone, crashed, slot, processingRequests, writeChan,
                   workChanClosed, caller, readLoop, writerLoop, reaper, stop,
                   hEnq, hHandler, hDelivered, hRecv, hPanicked, hAtStop,
                   otherVars>>

\* the worker's select saw the closed, drained workChan or the cancelled b.ctx
WorkerExit(w) ==
    /\ ~crashed
    /\ worker[w].pc = "idle"
    /\ \/ workChanClosed /\ workChan = <<>>
       \/ ctxDone
    /\ worker' = [worker EXCEPT ![w].pc = "exited"]
    /\ UNCHANGED <<ctxDone, crashed, waiters, slot, unconfirmedRequests,
                   processingRequests, writeChan, workChan, workChanClosed,
                   caller, readLoop, writerLoop, reaper, stop, hEnq, hHandler,
                   hDelivered, hRecv, hOverlap, hPanicked, hAtStop, otherVars, takeHist>>

\* response: the non-blocking send into the waiter's one-place channel
RespSend(w) ==
    /\ ~crashed
    /\ worker[w].pc = "resp_send"
    /\ LET id == worker[w].id
       IN IF Len(slot[id]) < 1
          THEN /\ slot' = [slot EXCEPT ![id] = Append(@, worker[w].payload)]
               /\ hDelivered' = Bump(hDelivered, id)
          ELSE UNCHANGED <<slot, hDelivered>>
    /\ worker' = [worker EXCEPT ![w] = IdleWorker]
    /\ UNCHANGED <<ctxDone, crashed, waiters, unconfirmedRequests,
                   processingRequests, writeChan, workChan, workChanClosed,
                   caller, readLoop, writerLoop, reaper, stop, hEnq, hHandler,
                   hRecv, hOverlap, hPanicked, hAtStop, otherVars, takeHist>>

\* request: b.processingRequests.Store(w.id, struct{}{})
ReqStore(w) ==
    /\ ~crashed
    /\ worker[w].pc = "req_store"
    /\ processingRequests' = processingRequests \cup {worker[w].id}
    /\ worker' = [worker EXCEPT ![w].pc = "req_accept"]
    /\ UNCHANGED <<ctxDone, crashed, waiters, slot, unconfirmedRequests,
                   writeChan, workChan, workChanClosed, caller, readLoop,
                   writerLoop, reaper, stop, hEnq, hHandler, hDelivered,
                   hRecv, hOverlap, hPanicked, hAtStop, otherVars, takeHist>>

\* request: b.writeFrame(b.ctx, payloadTypeAcceptRequest, w.id, nil)
ReqAccept(w) ==
    /\ ~crashed
    /\ worker[w].pc = "req_accept"
    /\ \E out \in WriteOutcomes :
           writeFrame(ctxDone, Frame(payloadTypeAcceptRequest, worker[w].id, ""), out)
    /\ worker' = [worker EXCEPT ![w].pc = "req_call"]
    /\ UNCHANGED <<ctxDone, crashed, waiters, slot, unconfirmedRequests,
                   processingRequests, workChan, workChanClosed, caller,
                   readLoop, writerLoop, reaper, stop, hHandler, hDelivered,
                   hRecv, hOverlap, hPanicked, hAtStop, otherVars, takeHist>>

\* request: b.handler(b.ctx, w.payload) is entered
HandlerCall(w) ==
    /\ ~crashed
    /\ worker[w].pc = "req_call"
    /\ hHandler' = Bump(hHandler, worker[w].id)
    /\ worker' = [worker EXCEPT ![w].pc = "in_handler"]
    /\ UNCHANGED <<ctxDone, crashed, waiters, slot, unconfirmedRequests,
                   processingRequests, writeChan, workChan, workChanClosed,
                   caller, readLoop, writerLoop, reaper, stop, hEnq,
                   hDelivered, hRecv, hOverlap, hPanicked, hAtStop, otherVars, takeHist>>

\* the handler returns resp
HandlerReturns(w, resp) ==
    /\ ~crashed
    /\ worker[w].pc = "in_handler"
    /\ worker' = [worker EXCEPT ![w].pc = "req_delete", ![w].payload = resp]
    /\ UNCHANGED <<ctxDone, crashed, waiters, slot, unconfirmedRequests,
                   processingRequests, writeChan, workChan, workChanClosed,
                   caller, readLoop, writerLoop, reaper, stop, hEnq, hHandler,
                   hDelivered, hRecv, hOverlap, hPanicked, hAtStop, otherVars, takeHist>>

\* the handler returns one of the short responses
HandlerReturn(w) == \E resp \in RespPayloads : HandlerReturns(w, resp)

\* the handler never returns: it does not look at the context it was given
HandlerHang(w) ==
    /\ ~crashed
    /\ worker[w].pc = "in_handler"
    /\ worker' = [worker EXCEPT ![w].pc = "hung"]
    /\ UNCHANGED <<ctxDone, crashed, waiters, slot, unconfirmedRequests,
                   processingRequests, writeChan, workChan, workChanClosed,
                   caller, readLoop, writerLoop, reaper, stop, hEnq, hHandler,
                   hDelivered, hRecv, hOverlap, hPanicked, hAtStop, otherVars, takeHist>>

\* the handler panics: handleWork and the worker goroutine have no recover,
\* the panic unwinds the goroutine and the runtime ends the process
HandlerPanic(w) ==
    /\ ~crashed
    /\ worker[w].pc = "in_handler"
    /\ crashed' = TRUE
    /\ hPanicked' = hPanicked \cup {worker[w].id}
    /\ worker' = [worker EXCEPT ![w].pc = "panicked"]
    /\ UNCHANGED <<ctxDone, waiters, slot, unconfirmedRequests,
                   processingRequests, writeChan, workChan, workChanClosed,
                   caller, readLoop, writerLoop, reaper, stop, hEnq, hHandler,
                   hDelivered, hRecv, hOverlap, hAtStop, otherVars, takeHist>>

\* request: b.processingRequests.Delete(w.id)
ReqDelete(w) ==
    /\ ~crashed
    /\ worker[w].pc = "req_delete"
    /\ processingRequests' = processingRequests \ {worker[w].id}
    /\ worker' = [worker EXCEPT ![w].pc = "req_resp"]
    /\ UNCHANGED <<ctxDone, crashed, waiters, slot, unconfirmedRequests,
                   writeChan, workChan, workChanClosed, caller, readLoop,
                   writerLoop, reaper, stop, hEnq, hHandler, hDelivered,
                   hRecv, hOverlap, hPanicked, hAtStop, otherVars, takeHist>>

\* request: b.writeFrame(b.ctx, payloadTypeResponse, w.id, resp)
ReqRespond(w) ==
    /\ ~crashed
    /\ worker[w].pc = "req_resp"
    /\ \E out \in WriteOutcomes :
           writeFrame(ctxDone,
                      Frame(payloadTypeResponse, worker[w].id, worker[w].payload),
                      out)
    /\ worker' = [worker EXCEPT ![w] = IdleWorker]
    /\ UNCHANGED <<ctxDone, crashed, waiters, slot, unconfirmedRequests,
                   processingRequests, workChan, workChanClosed, caller,
                   readLoop, writerLoop, reaper, stop, hHandler, hDelivered,
                   hRecv, hOverlap, hPanicked, hAtStop, otherVars, takeHist>>

\* retry: one turn of the range loop, in the map's order, which is any order
RetrySend(w) ==
    /\ ~crashed
    /\ worker[w].pc = "retry_send"
    /\ \E reqID \in DOMAIN worker[w].todo :
         /\ \E out \in WriteOutcomes :
                writeFrame(ctxDone,
                           Frame(payloadTypeRequest, reqID, worker[w].todo[reqID]),
                           out)
         /\ worker' = [worker EXCEPT ![w] =
                IF DOMAIN worker[w].todo = {reqID} THEN IdleWorker
                ELSE [@ EXCEPT !.todo = MapDelete(@, reqID)]]
    /\ UNCHANGED <<ctxDone, crashed, waiters, slot, unconfirmedRequests,
                   processingRequests, workChan, workChanClosed, caller,
                   readLoop, writerLoop, reaper, stop, hHandler, hDelivered,
                   hRecv, hOverlap, hPanicked, hAtStop, otherVars, takeHist>>

\* ---- Request ----

UsedIDs == {caller[c].id : c \in Callers} \ {0}

\* Request's two checks of len(payload)
RequestTooLarge(payloadLen) ==
    ExceedsUint32(payloadLen) \/ payloadLen > MAX_MESSAGE_PAYLOAD

\* Request returns its error for a payload that is too long
RequestRefuse(c, payload) ==
    /\ ~crashed
    /\ caller[c].pc = "idle"
    /\ RequestTooLarge(PayloadLen(payload))
    /\ caller' = [caller EXCEPT
                    ![c].pc = "done", ![c].payload = payload,
                    ![c].err = IF ExceedsUint32(PayloadLen(payload))
                               THEN "payload too large"
                               ELSE "payload exceeds maximum message payload"]
    /\ UNCHANGED <<ctxDone, crashed, waiters, slot, unconfirmedRequests,
                   processingRequests, writeChan, workChan, workChanClosed,
                   worker, readLoop, writerLoop, reaper, stop, hEnq, hHandler,
                   hDelivered, hRecv, hOverlap, hPanicked, hAtStop, otherVars,
                   takeHist>>

\* a Request that goes on whatever the length of its payload
RequestNewUnchecked(c, payload) ==
    /\ ~crashed
    /\ caller[c].pc = "idle"
    /\ \E id \in MsgIDs \ UsedIDs :
         /\ waiters' = MapStore(waiters, id, FALSE)
         /\ slot' = [slot EXCEPT ![id] = <<>>]
         /\ unconfirmedRequests' = MapStore(unconfirmedRequests, id, payload)
         /\ caller' = [caller EXCEPT ![c].pc = "write", ![c].id = id,
                                     ![c].payload = payload]
    /\ UNCHANGED <<ctxDone, crashed, processingRequests, writeChan, workChan,
                   workChanClosed, worker, readLoop, writerLoop, reaper, stop,
                   hEnq, hHandler, hDelivered, hRecv, hOverlap, hPanicked,
                   hAtStop, otherVars, takeHist>>

\* the length checks passed: b.waiters.NewWaiter(), a fresh random ID with its
\* one-place channel, and b.unconfirmedRequests.Store(id, payload)
RequestNew(c, payload) ==
    /\ ~crashed
    /\ caller[c].pc = "idle"
    /\ ~RequestTooLarge(PayloadLen(payload))
    /\ \E id \in MsgIDs \ UsedIDs :
         /\ waiters' = MapStore(waiters, id, FALSE)
         /\ slot' = [slot EXCEPT ![id] = <<>>]
         /\ unconfirmedRequests' = MapStore(unconfirmedRequests, id, payload)
         /\ caller' = [caller EXCEPT ![c].pc = "write", ![c].id = id,
                                     ![c].payload = payload]
    /\ UNCHANGED <<ctxDone, crashed, processingRequests, writeChan, workChan,
                   workChanClosed, worker, readLoop, writerLoop, reaper, stop,
                   hEnq, hHandler, hDelivered, hRecv, hOverlap, hPanicked,
                   hAtStop, otherVars, takeHist>>

\* b.writeFrame(ctx, payloadTypeRequest, id, payload) and, when it fails,
\* b.waiters.Delete(id) and the return of its error
RequestWrite(c) ==
    /\ ~crashed
    /\ caller[c].pc = "write"
    /\ \E out \in WriteOutcomes :
         /\ writeFrame(caller[c].ctxDone,
                       Frame(payloadTypeRequest, caller[c].id, caller[c].payload),
                       out)
         /\ IF out = "nil"
            THEN /\ caller' = [caller EXCEPT ![c].pc = "wait"]
                 /\ UNCHANGED waiters
            ELSE /\ waiters' = MapDelete(waiters, caller[c].id)
                 /\ caller' = [caller EXCEPT ![c].pc = "done", ![c].err = out]
    /\ UNCHANGED <<ctxDone, crashed, slot, unconfirmedRequests,
                   processingRequests, workChan, workChanClosed, worker,
                   readLoop, writerLoop, reaper, stop, hHandler, hDelivered,
                   hRecv, hOverlap, hPanicked, hAtStop, otherVars, takeHist>>

\* a select that does not look at b.ctx
RequestWaitNoShutdown(c) ==
    /\ ~crashed
    /\ caller[c].pc = "wait"
    /\ LET id == caller[c].id
       IN \/ /\ slot[id] # <<>>
             /\ slot' = [slot EXCEPT ![id] = Tail(@)]
             /\ caller' = [caller EXCEPT ![c].pc = "done", ![c].err = "nil",
                                         ![c].resp = Head(slot[id])]
             /\ UNCHANGED <<unconfirmedRequests, waiters>>
          \/ /\ caller[c].ctxDone
             /\ unconfirmedRequests' = MapDelete(unconfirmedRequests, id)
             /\ waiters' = MapDelete(waiters, id)
             /\ caller' = [caller EXCEPT ![c].pc = "done", ![c].err = "ctx.Err"]
             /\ UNCHANGED slot
    /\ UNCHANGED <<ctxDone, crashed, processingRequests, writeChan, workChan,
                   workChanClosed, worker, readLoop, writerLoop, reaper, stop,
                   hEnq, hHandler, hDelivered, hRecv, hOverlap, hPanicked,
                   hAtStop, otherVars, takeHist>>

\* the select over the waiter's channel, the caller's context and b.ctx
RequestWait(c) ==
    /\ ~crashed
    /\ caller[c].pc = "wait"
    /\ LET id == caller[c].id
       IN \/ /\ slot[id] # <<>>
             /\ slot' = [slot EXCEPT ![id] = Tail(@)]
             /\ caller' = [caller EXCEPT ![c].pc = "done", ![c].err = "nil",
                                         ![c].resp = Head(slot[id])]
             /\ UNCHANGED <<unconfirmedRequests, waiters>>
          \/ /\ caller[c].ctxDone
             /\ unconfirmedRequests' = MapDelete(unconfirmedRequests, id)
             /\ waiters' = MapDelete(waiters, id)
             /\ caller' = [caller EXCEPT ![c].pc = "done", ![c].err = "ctx.Err"]
             /\ UNCHANGED slot
          \/ /\ ctxDone
             /\ unconfirmedRequests' = MapDelete(unconfirmedRequests, id)
             /\ waiters' = MapDelete(waiters, id)
             /\ caller' = [caller EXCEPT ![c].pc = "done", ![c].err = "io.EOF"]
             /\ UNCHANGED slot
    /\ UNCHANGED <<ctxDone, crashed, processingRequests, writeChan, workChan,
                   workChanClosed, worker, readLoop, writerLoop, reaper, stop,
                   hEnq, hHandler, hDelivered, hRecv, hOverlap, hPanicked,
                   hAtStop, otherVars, takeHist>>

\* the caller cancels the context it gave, or will give, to Request
CancelCaller(c) ==
    /\ ~crashed
    /\ caller[c].pc # "done"
    /\ ~caller[c].ctxDone
    /\ caller' = [caller EXCEPT ![c].ctxDone = TRUE]
    /\ UNCHANGED <<ctxDone, crashed, waiters, slot, unconfirmedRequests,
                   processingRequests, writeChan, workChan, workChanClosed,
                   worker, readLoop, writerLoop, reaper, stop, hEnq, hHandler,
                   hDelivered, hRecv, hOverlap, hPanicked, hAtStop, otherVars, takeHist>>

\* ---- read loop, writer loop, reaper ----

\* a read loop whose processStash would wait for room in workChan
ReadLoopRecvBlocking(f, limit) ==
    /\ ~crashed
    /\ readLoop = "run"
    /\ hRecv < limit
    /\ hRecv' = hRecv + 1
    /\ consecutiveErrors' = [consecutiveErrors EXCEPT !.read = 0]
    /\ backoff' = [backoff EXCEPT !.read = initialBackoff]
    /\ hFailsInRow' = [hFailsInRow EXCEPT !.read = 0]
    /\ \/ /\ Len(workChan) < workQueueSize
          /\ workChan' = Append(workChan, f)
       \/ /\ ctxDone
          /\ UNCHANGED workChan
    /\ UNCHANGED <<ctxDone, crashed, waiters, slot, unconfirmedRequests,
                   processingRequests, writeChan, workChanClosed, worker,
                   caller, readLoop, writerLoop, reaper, stop, hEnq, hHandler,
                   hDelivered, hOverlap, hPanicked, hAtStop, farVars,
                   done, monitor, hStopHealthy, takeHist>>

\* ReadContext returned the bytes of frame f, the error count starts again;
\* processStash decoded the frame and offered it to the workers: queued, given
\* up on shutdown, or dropped for want of room. limit bounds the number of
\* frames the peer sends.
ReadLoopRecvUpTo(f, limit) ==
    /\ ~crashed
    /\ readLoop = "run"
    /\ hRecv < limit
    /\ hRecv' = hRecv + 1
    /\ consecutiveErrors' = [consecutiveErrors EXCEPT !.read = 0]
    /\ backoff' = [backoff EXCEPT !.read = initialBackoff]
    /\ hFailsInRow' = [hFailsInRow EXCEPT !.read = 0]
    /\ \/ /\ Len(workChan) < workQueueSize
          /\ workChan' = Append(workChan, f)
       \/ /\ ctxDone
          /\ UNCHANGED workChan
       \/ /\ Len(workChan) >= workQueueSize
          /\ ~ctxDone
          /\ UNCHANGED workChan
    /\ UNCHANGED <<ctxDone, crashed, waiters, slot, unconfirmedRequests,
                   processingRequests, writeChan, workChanClosed, worker,
                   caller, readLoop, writerLoop, reaper, stop, hEnq, hHandler,
                   hDelivered, hOverlap, hPanicked, hAtStop, farVars,
                   done, monitor, hStopHealthy, takeHist>>

\* the same with the peer sending at most MaxInbound frames
ReadLoopRecv(f) == ReadLoopRecvUpTo(f, MaxInbound)

\* ReadContext returned no bytes and no error (a zero-length packet): neither
\* the n > 0 branch nor the err != nil branch runs, and the loop reads again
ReadLoopRecvEmpty ==
    /\ ~crashed
    /\ readLoop = "run"
    /\ hFailsInRow' = [hFailsInRow EXCEPT !.read = 0]
    /\ UNCHANGED <<ctxDone, crashed, waiters, slot, unconfirmedRequests,
                   processingRequests, writeChan, workChan, workChanClosed,
                   worker, caller, readLoop, writerLoop, reaper, stop, hEnq,
                   hHandler, hDelivered, hRecv, hOverlap, hPanicked, hAtStop,
                   farVars, done, monitor, consecutiveErrors, hStopHealthy,
                   backoff, takeHist>>

\* the writer loop's select received a frame
WriterTake ==
    /\ ~crashed
    /\ writerLoop.pc = "idle"
    /\ writeChan # <<>>
    /\ writerLoop' = [pc |-> "write", data |-> Head(writeChan)]
    /\ writeChan' = Tail(writeChan)
    /\ UNCHANGED <<ctxDone, crashed, waiters, slot, unconfirmedRequests,
                   processingRequests, workChan, workChanClosed, worker,
                   caller, readLoop, reaper, stop, hEnq, hHandler, hDelivered,
                   hRecv, hOverlap, hPanicked, hAtStop, otherVars, takeHist>>

\* b.w.WriteContext(b.ctx, data) succeeded: the error count starts again
WriterWrite ==
    /\ ~crashed
    /\ writerLoop.pc = "write"
    /\ writerLoop' = IdleWriter
    /\ consecutiveErrors' = [consecutiveErrors EXCEPT !.write = 0]
    /\ backoff' = [backoff EXCEPT !.write = initialBackoff]
    /\ hFailsInRow' = [hFailsInRow EXCEPT !.write = 0]
    /\ UNCHANGED <<ctxDone, crashed, waiters, slot, unconfirmedRequests,
                   processingRequests, writeChan, workChan, workChanClosed,
                   worker, caller, readLoop, reaper, stop, hEnq, hHandler,
                   hDelivered, hRecv, hOverlap, hPanicked, hAtStop, farVars,
                   done, monitor, hStopHealthy, takeHist>>

\* more than waiterTTL passes: every waiter registered by now is stale
TimePasses ==
    /\ ~crashed
    /\ \E id \in DOMAIN waiters : ~waiters[id]
    /\ waiters' = [id \in DOMAIN waiters |-> TRUE]
    /\ UNCHANGED <<ctxDone, crashed, slot, unconfirmedRequests,
                   processingRequests, writeChan, workChan, workChanClosed,
                   worker, caller, readLoop, writerLoop, reaper, stop, hEnq,
                   hHandler, hDelivered, hRecv, hOverlap, hPanicked, hAtStop,
                   otherVars, takeHist>>

\* the reaper's ticker fired: b.waiters.ReapStale(waiterTTL)
ReaperTick ==
    /\ ~crashed
    /\ reaper = "run"
    /\ waiters' = ReapStale(waiters)
    /\ UNCHANGED <<ctxDone, crashed, slot, unconfirmedRequests,
                   processingRequests, writeChan, workChan, workChanClosed,
                   worker, caller, readLoop, writerLoop, reaper, stop, hEnq,
                   hHandler, hDelivered, hRecv, hOverlap, hPanicked, hAtStop,
                   otherVars, takeHist>>

\* ---- Stop ----

InRequestCall(c) == caller[c].pc \in {"write", "wait"}

\* b.cancel() and the start of the goroutine that waits for the loops
StopCall ==
    /\ ~crashed
    /\ stop.pc = "idle"
    /\ ctxDone' = TRUE
    /\ stop' = [pc |-> "waiting", closer |-> "wait_loops", how |-> ""]
    /\ hAtStop' = {c \in Callers : InRequestCall(c)}
    /\ hStopHealthy' = (readLoop = "run" /\ writerLoop.pc # "exited")
    /\ UNCHANGED <<crashed, waiters, slot, unconfirmedRequests,
                   processingRequests, writeChan, workChan, workChanClosed,
                   worker, caller, readLoop, writerLoop, reaper, hEnq,
                   hHandler, hDelivered, hRecv, hOverlap, hPanicked, farVars,
                   done, monitor, consecutiveErrors, backoff, hFailsInRow,
                   takeHist>>

\* The read loop, the writer loop and the reaper have each seen b.ctx
\* cancelled and returned, in any order; Stop's goroutine, which waits for the
\* three of them, closes workChan. Until this step each loop may still act.
LoopsExit ==
    /\ ~crashed
    /\ stop.closer = "wait_loops"
    /\ ctxDone
    /\ readLoop = "run" /\ writerLoop.pc # "exited" /\ reaper = "run"
    /\ readLoop' = "exited"
    /\ writerLoop' = [IdleWriter EXCEPT !.pc = "exited"]
    /\ reaper' = "exited"
    /\ workChanClosed' = TRUE
    /\ stop' = [stop EXCEPT !.closer = "wait_workers"]
    /\ UNCHANGED <<ctxDone, crashed, waiters, slot, unconfirmedRequests,
                   processingRequests, writeChan, workChan, worker, caller,
                   hEnq, hHandler, hDelivered, hRecv, hOverlap, hPanicked,
                   hAtStop, otherVars, takeHist>>

\* every worker has returned: workersDone is closed, the goroutine closes
\* done and Stop's select receives from it
StopReturnClean ==
    /\ ~crashed
    /\ stop.pc = "waiting"
    /\ stop.closer = "wait_workers"
    /\ \A w \in Workers : worker[w].pc = "exited"
    /\ stop' = [stop EXCEPT !.pc = "returned", !.closer = "done", !.how = "clean"]
    /\ UNCHANGED <<ctxDone, crashed, waiters, slot, unconfirmedRequests,
                   processingRequests, writeChan, workChan, workChanClosed,
                   worker, caller, readLoop, writerLoop, reaper, hEnq,
                   hHandler, hDelivered, hRecv, hOverlap, hPanicked, hAtStop,
                   otherVars, takeHist>>

\* a select without the timer
StopNoTimeout == FALSE /\ UNCHANGED vars

\* Stop's select received from time.After(stopTimeout)
StopReturnTimeout ==
    /\ ~crashed
    /\ stop.pc = "waiting"
    /\ stop' = [stop EXCEPT !.pc = "returned", !.how = "timeout"]
    /\ UNCHANGED <<ctxDone, crashed, waiters, slot, unconfirmedRequests,
                   processingRequests, writeChan, workChan, workChanClosed,
                   worker, caller, readLoop, writerLoop, reaper, hEnq,
                   hHandler, hDelivered, hRecv, hOverlap, hPanicked, hAtStop,
                   otherVars, takeHist>>

\* ---- the loops' errors and exits, Stop's goroutine, the monitor ----

maxConsecutiveErrors == 10

\* what ReadContext and WriteContext fail with in the loops: a fatal errno
\* or another one
ErrorKinds == {"EBADF", "EIO"}

\* isFatal: err is not nil and is the errno EBADF or ENOENT
isFatal(err) == err # "nil" /\ err \in {"EBADF", "ENOENT"}

\* isRetryable: not nil, not a cancellation or deadline of a context, not
\* fatal
isRetryable(err) ==
    IF err = "nil" THEN FALSE
    ELSE IF err \in {"context.Canceled", "context.DeadlineExceeded"} THEN FALSE
    ELSE IF isFatal(err) THEN FALSE
    ELSE TRUE

\* what the loops' exits, Stop's goroutine and the monitor leave alone
lifeRest == <<waiters, slot, unconfirmedRequests, processingRequests, workChan,
              worker, caller, hHandler, hDelivered, hRecv, hOverlap, hPanicked,
              hAtStop, farVars, takeHist>>

\* a read error after which the read loop writes a retry frame
ReadLoopErrorRetryAll(kind) ==
    /\ ~crashed
    /\ readLoop = "run"
    /\ consecutiveErrors' = [consecutiveErrors EXCEPT !.read = @ + 1]
    /\ hFailsInRow' = [hFailsInRow EXCEPT !.read = @ + 1]
    /\ readLoop' = "retry_write"
    /\ UNCHANGED <<ctxDone, crashed, writeChan, workChanClosed, writerLoop,
                   reaper, stop, hEnq, done, monitor, hStopHealthy, backoff,
                   lifeRest>>

\* readLoop: ReadContext returned no bytes and an error. The count goes up;
\* at maxConsecutiveErrors or on a fatal error the loop returns; otherwise it
\* goes on to write a retry frame.
ReadLoopError(kind) ==
    /\ ~crashed
    /\ readLoop = "run"
    /\ consecutiveErrors' = [consecutiveErrors EXCEPT !.read = @ + 1]
    /\ hFailsInRow' = [hFailsInRow EXCEPT !.read = @ + 1]
    /\ readLoop' =
           IF consecutiveErrors.read + 1 >= maxConsecutiveErrors \/ isFatal(kind)
           THEN "exited"
           ELSE "retry_write"
    /\ UNCHANGED <<ctxDone, crashed, writeChan, workChanClosed, writerLoop,
                   reaper, stop, hEnq, done, monitor, hStopHealthy, backoff,
                   lifeRest>>

\* readLoop: b.writeFrame(b.ctx, payloadTypeRetry, [16]byte{}, nil), which
\* waits for room in writeChan or for the cancellation, then the backoff
ReadLoopRetryWrite ==
    /\ ~crashed
    /\ readLoop = "retry_write"
    /\ \E out \in WriteOutcomes :
           writeFrame(ctxDone, Frame(payloadTypeRetry, 0, ""), out)
    /\ readLoop' = "run"
    /\ backoff' = [backoff EXCEPT !.read = NextBackoff(@)]
    /\ UNCHANGED <<ctxDone, crashed, workChanClosed, writerLoop, reaper, stop,
                   done, monitor, consecutiveErrors, hStopHealthy, hFailsInRow,
                   lifeRest>>

\* readLoop saw b.ctx cancelled: at the top of the loop, as the error of
\* ReadContext, or in the backoff
ReadLoopExit ==
    /\ ~crashed
    /\ readLoop = "run"
    /\ ctxDone
    /\ readLoop' = "exited"
    /\ UNCHANGED <<ctxDone, crashed, writeChan, workChanClosed, writerLoop,
                   reaper, stop, hEnq, lifeVars, lifeRest>>

\* a writer loop that gives up the frame on an error and takes the next one
WriterErrorSkip(kind) ==
    /\ ~crashed
    /\ writerLoop.pc = "write"
    /\ consecutiveErrors' = [consecutiveErrors EXCEPT !.write = @ + 1]
    /\ hFailsInRow' = [hFailsInRow EXCEPT !.write = @ + 1]
    /\ backoff' = [backoff EXCEPT !.write = NextBackoff(@)]
    /\ writerLoop' = IdleWriter
    /\ UNCHANGED <<ctxDone, crashed, writeChan, workChanClosed, readLoop,
                   reaper, stop, hEnq, done, monitor, hStopHealthy, lifeRest>>

\* writerLoop: WriteContext failed. The count goes up; at
\* maxConsecutiveErrors or on a fatal error the loop returns; otherwise it
\* backs off and writes the same frame again.
WriterError(kind) ==
    /\ ~crashed
    /\ writerLoop.pc = "write"
    /\ consecutiveErrors' = [consecutiveErrors EXCEPT !.write = @ + 1]
    /\ hFailsInRow' = [hFailsInRow EXCEPT !.write = @ + 1]
    /\ backoff' =
           IF consecutiveErrors.write + 1 >= maxConsecutiveErrors \/ isFatal(kind)
           THEN backoff
           ELSE [backoff EXCEPT !.write = NextBackoff(@)]
    /\ writerLoop' =
           IF consecutiveErrors.write + 1 >= maxConsecutiveErrors \/ isFatal(kind)
           THEN [IdleWriter EXCEPT !.pc = "exited"]
           ELSE writerLoop
    /\ UNCHANGED <<ctxDone, crashed, writeChan, workChanClosed, readLoop,
                   reaper, stop, hEnq, done, monitor, hStopHealthy, lifeRest>>

\* writerLoop saw b.ctx cancelled in one of its selects or as the error of
\* WriteContext
WriterLoopExit ==
    /\ ~crashed
    /\ writerLoop.pc # "exited"
    /\ ctxDone
    /\ writerLoop' = [IdleWriter EXCEPT !.pc = "exited"]
    /\ UNCHANGED <<ctxDone, crashed, writeChan, workChanClosed, readLoop,
                   reaper, stop, hEnq, lifeVars, lifeRest>>

\* the reaper's select saw b.ctx cancelled
ReaperExit ==
    /\ ~crashed
    /\ reaper = "run"
    /\ ctxDone
    /\ reaper' = "exited"
    /\ UNCHANGED <<ctxDone, crashed, writeChan, workChanClosed, readLoop,
                   writerLoop, stop, hEnq, lifeVars, lifeRest>>

\* a goroutine that closes workChan without waiting for the loops
CloseWorkChanEarly ==
    /\ ~crashed
    /\ stop.closer = "wait_loops"
    /\ workChanClosed' = TRUE
    /\ stop' = [stop EXCEPT !.closer = "wait_workers"]
    /\ UNCHANGED <<ctxDone, crashed, writeChan, readLoop, writerLoop, reaper,
                   hEnq, lifeVars, lifeRest>>

\* Stop's goroutine has received from readLoopDone, writerLoopDone and
\* reaperDone and closes workChan
CloseWorkChan ==
    /\ ~crashed
    /\ stop.closer = "wait_loops"
    /\ readLoop = "exited" /\ writerLoop.pc = "exited" /\ reaper = "exited"
    /\ ~workChanClosed
    /\ workChanClosed' = TRUE
    /\ stop' = [stop EXCEPT !.closer = "wait_workers"]
    /\ UNCHANGED <<ctxDone, crashed, writeChan, readLoop, writerLoop, reaper,
                   hEnq, lifeVars, lifeRest>>

\* a monitor that returns on a loop's exit and leaves b.done open
MonitorSilent ==
    /\ ~crashed
    /\ monitor = "select"
    /\ readLoop = "exited" \/ writerLoop.pc = "exited"
    /\ monitor' = "exited"
    /\ UNCHANGED <<ctxDone, crashed, writeChan, workChanClosed, readLoop,
                   writerLoop, reaper, stop, hEnq, done, consecutiveErrors,
                   hStopHealthy, backoff, hFailsInRow, lifeRest>>

\* the monitor's select took readLoopDone or writerLoopDone: close(b.done)
MonitorUnhealthy ==
    /\ ~crashed
    /\ monitor = "select"
    /\ readLoop = "exited" \/ writerLoop.pc = "exited"
    /\ done' = TRUE
    /\ monitor' = "exited"
    /\ UNCHANGED <<ctxDone, crashed, writeChan, workChanClosed, readLoop,
                   writerLoop, reaper, stop, hEnq, consecutiveErrors,
                   hStopHealthy, backoff, hFailsInRow, lifeRest>>

\* the monitor's select took b.ctx.Done(): it returns and leaves b.done open
MonitorShutdown ==
    /\ ~crashed
    /\ monitor = "select"
    /\ ctxDone
    /\ monitor' = "exited"
    /\ UNCHANGED <<ctxDone, crashed, writeChan, workChanClosed, readLoop,
                   writerLoop, reaper, stop, hEnq, done, consecutiveErrors,
                   hStopHealthy, backoff, hFailsInRow, lifeRest>>


---------------------------------------------------------------------------
(* The stash under writes of noise and of one encoded frame *)

MaxNoiseLen == 2
MaxPayloadLen == 1

\* byte values the noise and the payloads are drawn from
SampleBytes == {0, MagicByte}
\* frame types written: the four of the protocol, the magic value, the top value
SampleTypes == {payloadTypeRequest, payloadTypeResponse, payloadTypeAcceptRequest,
                payloadTypeRetry, MagicByte, 255}
\* message IDs: 16 bytes, the first and the last drawn from a few values
SampleIDs == { [i \in 1..16 |-> IF i = 1 THEN a ELSE IF i = 16 THEN z ELSE 0] :
               a \in {1, 2}, z \in {0, MagicByte} }

SeqsUpTo(S, n) == UNION { [1..k -> S] : k \in 0..n }

InitStash ==
    /\ PoolIdle /\ SideIdle
    /\ buf = <<>>
    /\ capacity \in {HeaderLen + 1, DEFAULT_BROKER_CAPACITY}
    /\ res = NoRes
    /\ hWritten = <<>>
    /\ hConsumed = 0
    /\ hFrame = NoFrame
    /\ hTrail = "start"
    /\ hGot = {}
    /\ KeychainIdle
    /\ BrokerIdle

NoiseWritten == Len(hWritten) - (IF hFrame.pos >= 0 THEN Len(newMessage(hFrame.type, hFrame.id, hFrame.payload).frame) ELSE 0)

\* the read loop hands noise bytes to stash.Write
WriteNoise ==
    \E d \in SeqsUpTo(SampleBytes, MaxNoiseLen) :
        /\ d # <<>>
        /\ NoiseWritten + Len(d) <= MaxNoiseLen
        /\ buf' = StashWrite(buf, capacity, d)
        /\ hConsumed' = hConsumed + StashWriteDrop(buf, capacity, d)
        /\ hWritten' = hWritten \o d
        /\ hTrail' = "other"
        /\ UNCHANGED <<capacity, res, hFrame, hGot>>

\* the read loop hands one complete frame, as newMessage builds it, to stash.Write
WriteFrame ==
    \E t \in SampleTypes, id \in SampleIDs, p \in SeqsUpTo(SampleBytes, MaxPayloadLen) :
        LET f == newMessage(t, id, p).frame IN
        /\ hFrame = NoFrame
        /\ buf' = StashWrite(buf, capacity, f)
        /\ hConsumed' = hConsumed + StashWriteDrop(buf, capacity, f)
        /\ hFrame' = [pos |-> Len(hWritten), type |-> t, id |-> id, payload |-> p]
        /\ hWritten' = hWritten \o f
        /\ hTrail' = IF buf = <<>> THEN "frame_on_empty" ELSE "other"
        /\ UNCHANGED <<capacity, res, hGot>>

\* one stash.ReadPayload call
DoReadPayload ==
    LET r == ReadPayload(buf) IN
    /\ buf' = r.buf
    /\ res' = [err |-> r.err, id |-> r.id, type |-> r.type, payload |-> r.payload]
    /\ hConsumed' = hConsumed + (Len(buf) - Len(r.buf))
    /\ hTrail' = IF hTrail = "frame_on_empty" THEN "read_after_frame_on_empty"
                 ELSE IF r.err = "nil" THEN "read_ok" ELSE "read_err"
    /\ hGot' = IF r.err = "nil"
               THEN hGot \cup {[pos |-> hConsumed + IndexByte(buf, MagicByte),
                                type |-> r.type, id |-> r.id, payload |-> r.payload]}
               ELSE hGot
    /\ UNCHANGED <<capacity, hWritten, hFrame>>

NextStash ==
    \/ WriteNoise /\ UNCHANGED <<keyVars, brokerVars, lifeVars, poolVars, sideVars>>
    \/ WriteFrame /\ UNCHANGED <<keyVars, brokerVars, lifeVars, poolVars, sideVars>>
    \/ DoReadPayload /\ UNCHANGED <<keyVars, brokerVars, lifeVars, poolVars, sideVars>>

SpecStash == InitStash /\ [][NextStash]_vars

\* WithBufferSize(n) applied to the options' bufSize
WithBufferSize(current, n) == IF n > 0 THEN n ELSE current

\* SpecStashSmall: the same writes and reads on a stash of a broker made with
\* WithBufferSize(n) for small n
BufferSizeOptions == {1, 2, HeaderLen + MaxPayloadLen}

InitStashSmall ==
    /\ PoolIdle /\ SideIdle
    /\ buf = <<>>
    /\ \E n \in BufferSizeOptions :
           capacity = WithBufferSize(DEFAULT_BROKER_CAPACITY, n)
    /\ res = NoRes
    /\ hWritten = <<>>
    /\ hConsumed = 0
    /\ hFrame = NoFrame
    /\ hTrail = "start"
    /\ hGot = {}
    /\ KeychainIdle
    /\ BrokerIdle

SpecStashSmall == InitStashSmall /\ [][NextStash]_vars

---------------------------------------------------------------------------
(* Claims about the codec and the stash, checked under SpecStash *)

TheFrame == newMessage(hFrame.type, hFrame.id, hFrame.payload)

\* C4: round trip. The header of newMessage(type, id, payload) decodes to
\* (type, id, len(payload)); the frame written into an empty stash is read back
\* by the next ReadPayload as exactly (id, type, payload), and the stash is
\* empty afterwards.
C4_RoundTrip ==
    /\ hFrame # NoFrame =>
          LET h == DecodeHeader(TheFrame.frame) IN
          /\ TheFrame.err = "nil"
          /\ h.err = "nil"
          /\ h.Type = hFrame.type
          /\ h.ID = hFrame.id
          /\ h.Size = U32(Len(hFrame.payload))
    /\ hTrail = "read_after_frame_on_empty" =>
          /\ res = [err |-> "nil", id |-> hFrame.id, type |-> hFrame.type,
                    payload |-> hFrame.payload]
          /\ buf = <<>>

\* a frame with a payload that holds a magic byte has been written into the
\* empty stash and read back
C4_Witness ==
    /\ hTrail = "read_after_frame_on_empty"
    /\ hFrame.payload = <<MagicByte>>
    /\ res.payload = <<MagicByte>>

\* the stream so far is noise followed by the one complete frame
NoiseThenFrame ==
    /\ hFrame # NoFrame
    /\ Len(hWritten) = hFrame.pos + Len(TheFrame.frame)

FrameReturned ==
    [pos |-> hFrame.pos, type |-> hFrame.type, id |-> hFrame.id,
     payload |-> hFrame.payload] \in hGot

\* the last operation was a ReadPayload that ended the drain of processStash
DrainEnded ==
    /\ hTrail \in {"read_after_frame_on_empty", "read_ok", "read_err"}
    /\ res.err \in {"ErrNoPayloadFound", "ErrIncompletePayload"}

\* what the resync claim asks of a stream of noise followed by a frame
ResyncKeepsFrame ==
    /\ ~FrameReturned => hConsumed <= hFrame.pos
    /\ FrameReturned => hGot = {[pos |-> hFrame.pos, type |-> hFrame.type,
                                  id |-> hFrame.id, payload |-> hFrame.payload]}
    /\ DrainEnded => FrameReturned

\* C5 as stated: for ANY noise followed by a complete frame, the reads return
\* that frame and nothing but noise bytes before it is discarded.
C5_AnyNoise == NoiseThenFrame => ResyncKeepsFrame

\* no magic byte of the noise starts 23 bytes (of noise, then frame) that
\* decode as a header
NoHeaderInNoise ==
    \A i \in 1..hFrame.pos :
        hWritten[i] = MagicByte =>
            DecodeHeader(SubSeq(hWritten, i, Len(hWritten))).err # "nil"

\* C5 amended: the same, for noise in which no magic byte starts a header with
\* matching parity.
C5_Resync == (NoiseThenFrame /\ NoHeaderInNoise) => ResyncKeepsFrame

\* noise holding a magic byte was resynchronised over, and the frame after it
\* was returned
C5_Witness ==
    /\ NoiseThenFrame /\ NoHeaderInNoise
    /\ hFrame.pos = MaxNoiseLen
    /\ \E i \in 1..hFrame.pos : hWritten[i] = MagicByte
    /\ FrameReturned
    /\ DrainEnded

---------------------------------------------------------------------------
(* The keychain under concurrent sign calls *)

InitKeychain == KeychainIdle /\ StashIdle /\ BrokerIdle /\ PoolIdle /\ SideIdle

NextKeychain ==
    \/ \E t \in Signers : SignCall(t) /\ UNCHANGED <<stashVars, brokerVars, lifeVars, poolVars, sideVars>>
    \/ \E t \in Signers : SignLock(t) /\ UNCHANGED <<stashVars, brokerVars, lifeVars, poolVars, sideVars>>
    \/ \E t \in Signers : SignCheck(t) /\ UNCHANGED <<stashVars, brokerVars, lifeVars, poolVars, sideVars>>
    \/ \E t \in Signers : SignFinish(t) /\ UNCHANGED <<stashVars, brokerVars, lifeVars, poolVars, sideVars>>
    \/ \E k \in Keys : LockKey(k) /\ UNCHANGED <<stashVars, brokerVars, lifeVars, poolVars, sideVars>>
    \/ \E k \in Keys : UnlockKey(k) /\ UNCHANGED <<stashVars, brokerVars, lifeVars, poolVars, sideVars>>

SpecKeychain == InitKeychain /\ [][NextKeychain]_vars

\* a < b on (level, round) pairs, in lexicographic order
LexLess(a, b) == a[1] < b[1] \/ (a[1] = b[1] /\ a[2] < b[2])

\* C1: per key and kind the (level, round) of successful signs strictly
\* increase, also with sign calls on one key in flight together; a sign at or
\* below the stored watermark fails StaleWatermark and changes no watermark.
C1_Monotone ==
    [][ /\ \A k \in Keys, kd \in Kinds :
             hSigns'[k][kd] # hSigns[k][kd] =>
                 LexLess(hLastSign[k][kd], hLastSign'[k][kd])
        /\ \A t \in Signers :
             (signer[t].pc = "check" /\ signer'[t].pc = "idle"
              /\ lockState[signer[t].key] = "UNLOCKED"
              /\ ~LexLess(watermark[signer[t].key][signer[t].kind], signer[t].lr))
             => (signer'[t].result = "StaleWatermark" /\ watermark' = watermark)
      ]_vars

\* two signs of one kind succeeded on a key while a stale sign on that key
\* was refused
C1_Witness ==
    \E k \in Keys, kd \in Kinds :
        /\ hSigns[k][kd] = 2
        /\ \E t \in Signers : signer[t].result = "StaleWatermark"

---------------------------------------------------------------------------
(* Specifications of the broker. Each names the goroutines that take part  *)
(* and the frames the peer sends; the actions are the ones above.          *)

InitBroker == BrokerIdle /\ StashIdle /\ KeychainIdle /\ PoolIdle /\ SideIdle

ResponseFrames ==
    {Frame(payloadTypeResponse, id, p) : id \in MsgIDs, p \in RespPayloads}

ReplyFrames ==
    ResponseFrames
    \cup {Frame(payloadTypeAcceptRequest, id, "") : id \in MsgIDs}
    \cup {Frame(payloadTypeRetry, 0, "")}

RequestFrames ==
    {Frame(payloadTypeRequest, id, p) : id \in PeerIDs, p \in ReqPayloads}

\* SpecRequest: one Request, that its caller may cancel, against two workers,
\* the writer loop and the reaper; the peer answers, accepts and asks for
\* retries
OneCaller == {"c1"}

NextRequest ==
    \/ \E c \in OneCaller, p \in ReqPayloads : RequestNew(c, p)
    \/ \E c \in OneCaller : RequestWrite(c)
    \/ \E c \in OneCaller : RequestWait(c)
    \/ \E c \in OneCaller : CancelCaller(c)
    \/ \E f \in ReplyFrames : ReadLoopRecv(f)
    \/ \E w \in Workers : WorkerTake(w)
    \/ \E w \in Workers : RespSend(w)
    \/ \E w \in Workers : RetrySend(w)
    \/ WriterTake
    \/ WriterWrite
    \/ TimePasses
    \/ ReaperTick

SpecRequest == InitBroker /\ [][NextRequest]_vars

\* SpecRetry: two Requests nobody cancels and a broker nobody stops, against
\* one worker and the reaper; the peer answers, accepts and asks for retries
OneWorker == {"w1"}

NextRetry ==
    \/ \E c \in Callers, p \in ReqPayloads : RequestNew(c, p)
    \/ \E c \in Callers : RequestWrite(c)
    \/ \E c \in Callers : RequestWait(c)
    \/ \E f \in ReplyFrames : ReadLoopRecv(f)
    \/ \E w \in OneWorker : WorkerTake(w)
    \/ \E w \in OneWorker : RespSend(w)
    \/ \E w \in OneWorker : RetrySend(w)
    \/ TimePasses
    \/ ReaperTick

\* a Request that can take its next step takes it
FairRequest ==
    /\ \A c \in Callers : WF_vars(RequestWrite(c))
    /\ \A c \in Callers : WF_vars(RequestWait(c))

\* so does a worker
FairWorker ==
    /\ \A w \in OneWorker : WF_vars(WorkerTake(w))
    /\ \A w \in OneWorker : WF_vars(RespSend(w))
    /\ \A w \in OneWorker : WF_vars(RetrySend(w))

SpecRetry == InitBroker /\ [][NextRetry]_vars /\ FairRequest /\ FairWorker

\* SpecShutdown: one Request, that its caller may cancel, and Stop; the peer
\* answers
NextShutdown ==
    \/ \E c \in OneCaller, p \in ReqPayloads : RequestNew(c, p)
    \/ \E c \in OneCaller : RequestWrite(c)
    \/ \E c \in OneCaller : RequestWait(c)
    \/ \E c \in OneCaller : CancelCaller(c)
    \/ \E f \in ResponseFrames : ReadLoopRecv(f)
    \/ \E w \in OneWorker : WorkerTake(w)
    \/ \E w \in OneWorker : WorkerExit(w)
    \/ \E w \in OneWorker : RespSend(w)
    \/ StopCall
    \/ LoopsExit
    \/ StopReturnTimeout

SpecShutdown == InitBroker /\ [][NextShutdown]_vars /\ FairRequest

\* SpecServe: the peer's request frames served by two workers and a handler
\* that returns or never does, the writer loop, Stop
NextServe ==
    \/ \E f \in RequestFrames : ReadLoopRecv(f)
    \/ \E w \in Workers : WorkerTake(w)
    \/ \E w \in Workers : WorkerExit(w)
    \/ \E w \in Workers : ReqStore(w)
    \/ \E w \in Workers : ReqAccept(w)
    \/ \E w \in Workers : HandlerCall(w)
    \/ \E w \in Workers : HandlerReturn(w)
    \/ \E w \in Workers : HandlerHang(w)
    \/ \E w \in Workers : ReqDelete(w)
    \/ \E w \in Workers : ReqRespond(w)
    \/ WriterTake
    \/ WriterWrite
    \/ StopCall
    \/ LoopsExit
    \/ StopReturnClean
    \/ StopReturnTimeout

\* the timer of Stop's select fires
FairServe == WF_vars(StopReturnClean \/ StopReturnTimeout)

SpecServe == InitBroker /\ [][NextServe]_vars /\ FairServe

\* SpecPanic: the same with a handler that may panic
NextPanic == NextServe \/ \E w \in Workers : HandlerPanic(w)

SpecPanic == InitBroker /\ [][NextPanic]_vars

\* SpecLifecycle: Stop against the read loop, the writer loop, the reaper,
\* two workers and the monitor; the peer sends retry frames and each endpoint
\* fails at most MaxFaults times in a row
LifecycleFrames == {Frame(payloadTypeRetry, 0, "")}

MaxFaults == 1

NextLifecycle ==
    \/ \E f \in LifecycleFrames : ReadLoopRecv(f)
    \/ \E k \in ErrorKinds : ReadLoopError(k) /\ consecutiveErrors.read < MaxFaults
    \/ ReadLoopRetryWrite
    \/ ReadLoopExit
    \/ \E w \in Workers : WorkerTake(w)
    \/ \E w \in Workers : WorkerExit(w)
    \/ WriterTake
    \/ WriterWrite
    \/ \E k \in ErrorKinds : WriterError(k) /\ consecutiveErrors.write < MaxFaults
    \/ WriterLoopExit
    \/ ReaperExit
    \/ StopCall
    \/ CloseWorkChan
    \/ StopReturnClean
    \/ StopReturnTimeout
    \/ MonitorUnhealthy
    \/ MonitorShutdown

\* the monitor goroutine is scheduled: while one of its loop channels is
\* closed and it has not returned, it gets to take that case
FairMonitor == WF_vars(MonitorUnhealthy)

SpecLifecycle == InitBroker /\ [][NextLifecycle]_vars /\ FairMonitor

\* SpecHealth: the two loops with their errors up to maxConsecutiveErrors, the
\* monitor and Stop; one endpoint fails at a time
NextHealth ==
    \/ \E f \in LifecycleFrames : ReadLoopRecv(f)
    \/ \E k \in ErrorKinds : ReadLoopError(k) /\ consecutiveErrors.write = 0
    \/ ReadLoopRetryWrite
    \/ ReadLoopExit
    \/ WriterTake
    \/ WriterWrite
    \/ \E k \in ErrorKinds : WriterError(k) /\ consecutiveErrors.read = 0
    \/ WriterLoopExit
    \/ StopCall
    \/ MonitorUnhealthy
    \/ MonitorShutdown

SpecHealth == InitBroker /\ [][NextHealth]_vars /\ FairMonitor

\* SpecPool: the worker pool for each workerCount New can be given, against
\* a read loop that fills workChan
WorkerCountOptions == {-1, 0, 1, 2, 3}

\* New: the default, the options applied, workChan made, startWorkers
InitPool ==
    /\ \E n \in WorkerCountOptions :
           workerCount = WithWorkerCount(defaultWorkerCount, n)
    /\ pool = [i \in 1..workerCount |-> "select"]
    /\ queued = 0
    /\ inflight = 0
    /\ BrokerIdle /\ StashIdle /\ KeychainIdle /\ SideIdle

\* processStash queued a work item
PoolEnqueue ==
    /\ queued < workQueueSize
    /\ queued' = queued + 1
    /\ UNCHANGED <<workerCount, pool, inflight>>

\* a worker that would start handleWork in a goroutine of its own and go
\* back to its select
PoolTakeAsync(i) ==
    /\ queued > 0
    /\ queued' = queued - 1
    /\ inflight' = inflight + 1
    /\ UNCHANGED <<workerCount, pool>>

\* worker i, at its select, received a work item and called handleWork
PoolTake(i) ==
    /\ pool[i] = "select"
    /\ queued > 0
    /\ queued' = queued - 1
    /\ pool' = [pool EXCEPT ![i] = "handleWork"]
    /\ inflight' = inflight + 1
    /\ UNCHANGED workerCount

\* handleWork returned to worker i's loop
PoolReturn(i) ==
    /\ pool[i] = "handleWork"
    /\ pool' = [pool EXCEPT ![i] = "select"]
    /\ inflight' = inflight - 1
    /\ UNCHANGED <<workerCount, queued>>

NextPool ==
    \/ PoolEnqueue /\ UNCHANGED <<stashVars, keyVars, brokerVars, lifeVars, sideVars>>
    \/ \E i \in 1..workerCount :
           PoolTake(i) /\ UNCHANGED <<stashVars, keyVars, brokerVars, lifeVars, sideVars>>
    \/ \E i \in 1..workerCount :
           PoolReturn(i) /\ UNCHANGED <<stashVars, keyVars, brokerVars, lifeVars, sideVars>>

SpecPool == InitPool /\ [][NextPool]_vars

\* SpecFlood: the peer sends request frame after request frame to one worker
\* whose handler does not return; once the worker is stuck the reads fail now
\* and then; the writer loop, held in WriteContext by a host that reads
\* nothing, takes no frame from writeChan
FloodLen == workQueueSize + MaxInbound + 1

WorkerStuck == \A w \in OneWorker : worker[w].pc = "hung"

NextFlood ==
    \/ \E f \in RequestFrames : ReadLoopRecvUpTo(f, FloodLen)
    \/ \E k \in ErrorKinds : ReadLoopError(k) /\ WorkerStuck
    \/ ReadLoopRetryWrite
    \/ \E w \in OneWorker : WorkerTake(w)
    \/ \E w \in OneWorker : ReqStore(w)
    \/ \E w \in OneWorker : ReqAccept(w)
    \/ \E w \in OneWorker : HandlerCall(w)
    \/ \E w \in OneWorker : HandlerHang(w)

SpecFlood == InitBroker /\ [][NextFlood]_vars

\* SpecWriteFull: the reads fail now and then while the writer loop, held in
\* WriteContext, takes no frame from writeChan; with writeChan full one
\* Request is made, that its caller may cancel
WriteFullLen == (WriteChanCap \div (maxConsecutiveErrors - 1)) + MaxInbound

WriteChanFull == Len(writeChan) = WriteChanCap

NextWriteFull ==
    \/ \E f \in LifecycleFrames : ReadLoopRecvUpTo(f, WriteFullLen)
    \/ \E k \in ErrorKinds : ReadLoopError(k)
    \/ ReadLoopRetryWrite
    \/ \E c \in OneCaller, p \in ReqPayloads : RequestNew(c, p) /\ WriteChanFull
    \/ \E c \in OneCaller : RequestWrite(c)
    \/ \E c \in OneCaller : CancelCaller(c)

SpecWriteFull == InitBroker /\ [][NextWriteFull]_vars

---------------------------------------------------------------------------
(* Claims about the broker *)

RECURSIVE SumCount(_, _)
\* the sum of h over the keys ks
SumCount(h, ks) ==
    IF ks = {} THEN 0
    ELSE LET k == CHOOSE x \in ks : TRUE IN Count(h, k) + SumCount(h, ks \ {k})

RequestsTaken(id) ==
    SumCount(hTaken, {Frame(payloadTypeRequest, id, p) : p \in ReqPayloads})
ResponsesTaken(id) ==
    SumCount(hTaken, {Frame(payloadTypeResponse, id, p) : p \in RespPayloads})
ResponsesEnqueued(id) ==
    SumCount(hEnq, {Frame(payloadTypeResponse, id, p) : p \in RespPayloads})
AcceptsEnqueued(id) == Count(hEnq, Frame(payloadTypeAcceptRequest, id, ""))

\* C2 as stated: of two request frames with one ID, the second received by a
\* worker while the handler of the first has not returned, only one reaches
\* the handler, and one accept frame and one response frame are enqueued.
C2_Dedup ==
    \A id \in PeerIDs :
        (RequestsTaken(id) = 2 /\ id \in hOverlap)
        => /\ Count(hHandler, id) <= 1
           /\ AcceptsEnqueued(id) <= 1
           /\ ResponsesEnqueued(id) <= 1

\* C6 as stated: a panic of the handler is caught, the process and the worker
\* go on.
C6_PanicCaught ==
    \A id \in hPanicked :
        /\ ~crashed
        /\ \A w \in Workers : worker[w].pc # "panicked"

RetryQuiet == \A w \in Workers : worker[w].pc # "retry_send"
OwnFrame(c) == Frame(payloadTypeRequest, caller[c].id, caller[c].payload)
Called(c) == caller[c].pc # "idle"
Written(c) == IF caller[c].pc \in {"wait", "done"} THEN 1 ELSE 0

\* every retry frame handled while a Request is unconfirmed puts that
\* Request's frame, same ID and same payload, on the write channel once more
RetryResends ==
    /\ \A c \in Callers :
         (Called(c) /\ RetryQuiet)
         => Count(hEnq, OwnFrame(c)) = Written(c) + Count(hRetryHits, caller[c].id)
    /\ \A f \in DOMAIN hEnq :
         f.type = payloadTypeRequest => \E c \in Callers : Called(c) /\ f = OwnFrame(c)

\* a Request that returned, returned the payload of a response frame with its ID
ReturnsResponse ==
    \A c \in Callers :
        caller[c].pc = "done"
        => /\ caller[c].err = "nil"
           /\ Count(hTaken, Frame(payloadTypeResponse, caller[c].id, caller[c].resp)) >= 1

\* a response frame with this ID waits in the work channel
ResponseQueued(id) ==
    \E i \in 1..Len(workChan) :
        workChan[i].type = payloadTypeResponse /\ workChan[i].id = id

\* C3 as stated: with no caller cancelling and no Stop, a retry frame makes the
\* broker enqueue each unconfirmed Request again with its ID and payload, and
\* a response with its ID that reaches the broker while the Request is waiting
\* makes the Request return that response's payload with no error.
C3_RetryHandshake ==
    /\ [](RetryResends /\ ReturnsResponse)
    /\ \A c \in Callers :
         (caller[c].pc = "wait" /\ ResponseQueued(caller[c].id))
         ~> (caller[c].pc = "done" /\ caller[c].err = "nil")


\* C7: a waiter's slot is filled at most once, however many response frames
\* carry its ID; a response frame whose ID has no waiter is dropped and changes
\* no table; a Request that returned keeps what it returned, and one that
\* returned an error returned no response.
C7_AtMostOnce ==
    [][ /\ \A id \in MsgIDs : Count(hDelivered', id) <= 1
        /\ (/\ hTaken' # hTaken
            /\ Head(workChan).type = payloadTypeResponse
            /\ Head(workChan).id \notin DOMAIN waiters)
           => UNCHANGED <<worker, waiters, slot, unconfirmedRequests,
                          processingRequests, writeChan, hDelivered>>
        /\ \A c \in Callers :
             caller[c].pc = "done" => caller'[c] = caller[c]
        /\ \A c \in Callers :
             (caller'[c].pc = "done" /\ caller'[c].err # "nil") => caller'[c].resp = ""
      ]_vars

\* two response frames with one ID were handled and the slot was filled once
C7_Witness ==
    \E id \in MsgIDs :
        /\ ResponsesTaken(id) = 2
        /\ Count(hDelivered, id) = 1
        /\ \E c \in Callers : caller[c].pc = "done" /\ caller[c].id = id
                               /\ caller[c].err = "nil"

\* C8 as stated: a Request that returned its caller's context error left
\* neither its waiter nor its unconfirmed entry behind.
C8_CancelCleans ==
    \A c \in Callers :
        (caller[c].pc = "done" /\ caller[c].err = "ctx.Err")
        => /\ caller[c].id \notin DOMAIN waiters
           /\ caller[c].id \notin DOMAIN unconfirmedRequests

\* C9 as stated: a Request outstanding when Stop cancelled the broker returns
\* io.EOF, unless it returned the response delivered to its slot.
C9_EofOnly ==
    \A c \in hAtStop :
        caller[c].pc = "done" => caller[c].err \in {"io.EOF", "nil"}

\* what a Request outstanding at Stop may return
StopAnswer(c) ==
    \/ caller[c].err = "io.EOF"
    \/ caller[c].err = "nil" /\ Count(hDelivered, caller[c].id) = 1
    \/ caller[c].err = "ctx.Err" /\ caller[c].ctxDone

\* C9 amended: every Request outstanding when Stop cancelled the broker
\* returns, and returns io.EOF, unless its response was delivered to its slot
\* or its own context was cancelled as well, when it may return that context's
\* error.
C9_StopEndsRequests ==
    /\ [](\A c \in hAtStop : caller[c].pc = "done" => StopAnswer(c))
    /\ \A c \in Callers : (c \in hAtStop) ~> (caller[c].pc = "done")

\* a Request waiting for its response when Stop was called returned io.EOF
C9_Witness ==
    \E c \in hAtStop :
        /\ caller[c].pc = "done" /\ caller[c].err = "io.EOF"
        /\ ~caller[c].ctxDone
        /\ Count(hEnq, OwnFrame(c)) = 1

\* C10: Stop returns: after the loops and the workers have exited when its
\* return is the clean one, and on its timer however long a handler blocks.
C10_StopReturns ==
    /\ []((stop.pc = "returned" /\ stop.how = "clean")
          => /\ readLoop = "exited" /\ writerLoop.pc = "exited" /\ reaper = "exited"
             /\ \A w \in Workers : worker[w].pc = "exited")
    /\ (stop.pc = "waiting") ~> (stop.pc = "returned")

\* Stop returned on its timer while a handler was blocked for good
C10_Witness ==
    /\ stop.pc = "returned" /\ stop.how = "timeout"
    /\ \E w \in Workers : worker[w].pc = "hung"

---------------------------------------------------------------------------
(* Claims about the loops, the monitor and the shutdown order, checked      *)
(* under SpecLifecycle                                                      *)

LoopsExited == readLoop = "exited" /\ writerLoop.pc = "exited" /\ reaper = "exited"

\* C11: shutdown ordering. workChan is closed only once the read loop, the
\* writer loop and the reaper have exited; when Stop has returned through its
\* success path every worker has exited too; after that return no step calls
\* ReadContext or WriteContext (no read, no write, no error of either); and
\* nothing is ever sent on the closed workChan.
C11_ShutdownOrder ==
    [][ /\ (workChanClosed' /\ ~workChanClosed) => LoopsExited
        /\ stop'.how = "clean" =>
              (LoopsExited' /\ \A w \in Workers : worker'[w].pc = "exited")
        /\ stop.how = "clean" =>
              (hRecv' = hRecv /\ writerLoop' = writerLoop
               /\ consecutiveErrors' = consecutiveErrors)
        /\ workChanClosed => Len(workChan') <= Len(workChan)
      ]_vars

\* Stop returned through its success path after frames were read and a frame
\* was still queued when workChan was closed
C11_Witness ==
    /\ stop.how = "clean"
    /\ hRecv = MaxInbound
    /\ workChanClosed
    /\ workChan # <<>>

NoLoopError == consecutiveErrors = [read |-> 0, write |-> 0]

\* C13 as stated: when Stop was called with the read loop and the writer
\* loop running, and the loops exit because of the cancellation, b.done is
\* never closed.
C13_DoneOnlyUnhealthy == (hStopHealthy /\ NoLoopError) => ~done


---------------------------------------------------------------------------
(* Claim about the worker pool, checked under SpecPool *)

\* C14: at every moment at most workerCount handleWork invocations are in
\* progress, whatever the number of work items queued; they are the ones of
\* the workers that are inside handleWork.
C14_WorkerBound ==
    /\ inflight <= workerCount
    /\ inflight = Cardinality({i \in DOMAIN pool : pool[i] = "handleWork"})

\* a pool of three with all three workers in handleWork and workChan full
C14_Witness ==
    /\ workerCount = 3
    /\ inflight = 3
    /\ queued = workQueueSize


---------------------------------------------------------------------------
(* Claims about the full channels, checked under SpecFlood and SpecWriteFull *)

\* the work items the workers have received so far
TakenSoFar == SumCount(hTaken, DOMAIN hTaken)

\* the frames processStash decoded and did not queue
Dropped == hRecv - (Len(workChan) + TakenSoFar)

\* C15: with workQueueSize frames in workChan, processStash drops the frame
\* it has decoded and goes on; the read loop can always take its next frame,
\* however slow the workers; workChan never holds more than workQueueSize
\* frames and writeChan never more than 32.
C15_FullQueueDrops ==
    /\ [](Len(workChan) <= workQueueSize /\ Len(writeChan) <= WriteChanCap)
    /\ []((readLoop = "run" /\ hRecv < FloodLen)
           => \A f \in RequestFrames : ENABLED ReadLoopRecvUpTo(f, FloodLen))
    /\ [][(hRecv' # hRecv /\ Len(workChan) = workQueueSize)
           => (workChan' = workChan /\ hRecv' = hRecv + 1)]_vars

\* workChan and writeChan are full, the worker is inside its handler, and
\* frames have been dropped
C15_Witness ==
    /\ Len(workChan) = workQueueSize
    /\ Len(writeChan) = WriteChanCap
    /\ Dropped = MaxInbound
    /\ \E w \in OneWorker : worker[w].pc = "hung"

\* C16 as stated: with writeChan full, writeFrame inside Request returns at
\* once, without blocking, and what it returns is the context's error with
\* nothing enqueued.
C16_FullWriteReturns ==
    /\ [](\A c \in OneCaller :
            (caller[c].pc = "write" /\ Len(writeChan) = WriteChanCap)
            => ENABLED RequestWrite(c))
    /\ [][\A c \in OneCaller :
            (caller[c].pc = "write" /\ Len(writeChan) = WriteChanCap
             /\ caller'[c].pc # "write")
            => (caller'[c].err = "ctx.Err" /\ writeChan' = writeChan)]_vars


---------------------------------------------------------------------------
(* Claim about the stash's capacity, checked under SpecStashSmall *)

\* the last n elements of s, all of s when it has fewer
LastOf(s, n) == IF Len(s) <= n THEN s ELSE SubSeq(s, Len(s) - n + 1, Len(s))

\* the bytes the step hands to stash.Write
DataWritten == SubSeq(hWritten', Len(hWritten) + 1, Len(hWritten'))

\* C17 as stated: for any capacity and any write size the buffered bytes never
\* exceed the capacity, and a write leaves the newest bytes: what was
\* buffered followed by the data, less the overflow dropped from the head.
C17_WithinCapacity ==
    /\ [](Len(buf) <= capacity)
    /\ [][hWritten' # hWritten => buf' = LastOf(buf \o DataWritten, capacity)]_vars


---------------------------------------------------------------------------
(* SpecSize: the size boundary. A peer's header carries any uint32 in its  *)
(* size field; a caller's payload is of any length.                        *)

\* binary.LittleEndian.PutUint32 of a uint32 kept as its halves
U32Bytes(u) == <<u.lo % 256, u.lo \div 256, u.hi % 256, u.hi \div 256>>

\* a 23-byte header with the given size field: magic, type, id, size, parity
HeaderWithSize(msgType, id, size) ==
    LET h22 == <<MagicByte, msgType % 256>> \o id \o U32Bytes(size)
    IN  h22 \o <<headerParity(h22).p>>

\* size fields at the boundary: MAX_MESSAGE_PAYLOAD, the next value, 2^31 - 1,
\* 2^31 and 2^32 - 1
BoundarySizes ==
    {U32(MAX_MESSAGE_PAYLOAD), U32(MAX_MESSAGE_PAYLOAD + 1), U32(2147483647),
     [hi |-> 32768, lo |-> 0], [hi |-> 65535, lo |-> 65535]}

\* payloads a caller hands to Request: one of exactly the maximum, one longer
BoundaryPayloads == {"max", "over"}

\* the read loop hands a header with a boundary size, and a few bytes after
\* it, to stash.Write
WriteSizedHeader ==
    \E t \in {payloadTypeRequest, payloadTypeResponse}, id \in SampleIDs,
       size \in BoundarySizes, tail \in SeqsUpTo(SampleBytes, MaxPayloadLen) :
        LET d == HeaderWithSize(t, id, size) \o tail IN
        /\ hWritten = <<>>
        /\ buf' = StashWrite(buf, capacity, d)
        /\ hConsumed' = hConsumed + StashWriteDrop(buf, capacity, d)
        /\ hWritten' = d
        /\ hTrail' = "other"
        /\ UNCHANGED <<capacity, res, hFrame, hGot>>

NextSize ==
    \/ WriteSizedHeader /\ UNCHANGED <<keyVars, brokerVars, lifeVars, poolVars, sideVars>>
    \/ DoReadPayload /\ UNCHANGED <<keyVars, brokerVars, lifeVars, poolVars, sideVars>>
    \/ \E c \in OneCaller, p \in BoundaryPayloads : RequestRefuse(c, p)
    \/ \E c \in OneCaller, p \in BoundaryPayloads : RequestNew(c, p)
    \/ \E c \in OneCaller : RequestWrite(c)

SpecSize == InitBroker /\ [][NextSize]_vars

\* the size field of the header written
SizeWritten == LEUint32(SubSeq(hWritten, 19, 22))

\* C18: a header whose size is MAX_MESSAGE_PAYLOAD is not rejected, ReadPayload
\* waits for its payload; a header whose size is anything from
\* MAX_MESSAGE_PAYLOAD + 1 to 2^32 - 1 is rejected with ErrInvalidPayloadSize
\* and exactly the 23 header bytes are consumed; Request with a payload longer
\* than MAX_MESSAGE_PAYLOAD returns an error, registers no waiter and sends
\* nothing.
C18_SizeBoundary ==
    /\ [][(hWritten' = hWritten /\ stashVars' # stashVars
           /\ DecodeHeader(buf).err = "nil")
          => LET h == DecodeHeader(buf) IN
             /\ U32Gt(h.Size, MAX_MESSAGE_PAYLOAD)
                => /\ res'.err = "ErrInvalidPayloadSize"
                   /\ buf' = SubSeq(buf, HeaderLen + 1, Len(buf))
                   /\ hConsumed' = hConsumed + HeaderLen
             /\ h.Size = U32(MAX_MESSAGE_PAYLOAD)
                => /\ res'.err = "ErrIncompletePayload"
                   /\ buf' = buf]_vars
    /\ [](\A c \in OneCaller :
            (caller[c].pc # "idle"
             /\ PayloadLen(caller[c].payload) > MAX_MESSAGE_PAYLOAD)
            => /\ caller[c].pc = "done"
               /\ caller[c].err \in {"payload too large",
                                     "payload exceeds maximum message payload"}
               /\ caller[c].id = 0
               /\ waiters = Empty
               /\ unconfirmedRequests = Empty
               /\ writeChan = <<>>
               /\ hEnq = Empty)

\* a header of size 2^32 - 1 was rejected for its size, and a Request with a
\* payload one byte over the maximum has returned
C18_Witness ==
    /\ Len(hWritten) >= HeaderLen
    /\ SizeWritten = [hi |-> 65535, lo |-> 65535]
    /\ res.err = "ErrInvalidPayloadSize"
    /\ hConsumed = HeaderLen
    /\ \E c \in OneCaller : caller[c].pc = "done" /\ caller[c].payload = "over"

\* a header of size MAX_MESSAGE_PAYLOAD passed the size check, and a Request
\* with a payload of that length was sent
C18_WitnessMax ==
    /\ Len(hWritten) >= HeaderLen
    /\ SizeWritten = U32(MAX_MESSAGE_PAYLOAD)
    /\ res.err = "ErrIncompletePayload"
    /\ \E c \in OneCaller : caller[c].pc = "wait" /\ caller[c].payload = "max"

---------------------------------------------------------------------------
(* SpecEncode: what reaches the write channel when payloads are at and     *)
(* over the maximum: a caller's Request, and the responses of a handler    *)
(* serving the peer's requests.                                            *)

NextEncode ==
    \/ \E f \in RequestFrames : ReadLoopRecv(f)
    \/ \E w \in OneWorker : WorkerTake(w)
    \/ \E w \in OneWorker : ReqStore(w)
    \/ \E w \in OneWorker : ReqAccept(w)
    \/ \E w \in OneWorker : HandlerCall(w)
    \/ \E w \in OneWorker, resp \in BoundaryPayloads : HandlerReturns(w, resp)
    \/ \E w \in OneWorker : ReqDelete(w)
    \/ \E w \in OneWorker : ReqRespond(w)
    \/ WriterTake
    \/ WriterWrite
    \/ \E c \in OneCaller, p \in BoundaryPayloads : RequestRefuse(c, p)
    \/ \E c \in OneCaller, p \in BoundaryPayloads : RequestNew(c, p)
    \/ \E c \in OneCaller : RequestWrite(c)

SpecEncode == InitBroker /\ [][NextEncode]_vars

\* C19 as stated: no frame whose payload is longer than MAX_MESSAGE_PAYLOAD
\* is ever on the write channel, whatever its type, response frames built
\* from the handler's bytes included.
C19_NoOversizeFrame ==
    \A i \in 1..Len(writeChan) :
        PayloadLen(writeChan[i].payload) <= MAX_MESSAGE_PAYLOAD

---------------------------------------------------------------------------
(* SpecHeader: DecodeHeader on a header as newMessage lays it out, and on  *)
(* what the transport can make of it: one bit flipped, the tail cut off,   *)
(* another magic byte, another parity byte.                                *)

\* b with bit k flipped
FlipBit(b, k) == BitXor(b, 2 ^ k)

\* size fields of the headers built
HeaderSizes == BoundarySizes \cup {U32(0)}
\* values a magic byte is replaced with
WrongMagics == {0, MagicByte + 1, 255}
\* values a parity byte is replaced with
SampleParities == {0, MagicByte, 255}

\* buf holds the bytes handed to DecodeHeader, hWritten the header they were
\* made from, hTrail what was done to it, res what DecodeHeader returned
HeaderBuild ==
    \E t \in SampleTypes, id \in SampleIDs, size \in HeaderSizes :
        /\ hTrail = "start"
        /\ buf' = HeaderWithSize(t, id, size)
        /\ hWritten' = HeaderWithSize(t, id, size)
        /\ hTrail' = "valid"
        /\ UNCHANGED <<capacity, res, hConsumed, hFrame, hGot>>

HeaderFlipBit ==
    \E i \in 1..HeaderLen, k \in 0..7 :
        /\ hTrail = "valid"
        /\ res = NoRes
        /\ buf' = [buf EXCEPT ![i] = FlipBit(@, k)]
        /\ hTrail' = "flipped"
        /\ UNCHANGED <<capacity, res, hWritten, hConsumed, hFrame, hGot>>

HeaderTruncate ==
    \E n \in 0..(HeaderLen - 1) :
        /\ hTrail = "valid"
        /\ res = NoRes
        /\ buf' = SubSeq(buf, 1, n)
        /\ hTrail' = "short"
        /\ UNCHANGED <<capacity, res, hWritten, hConsumed, hFrame, hGot>>

\* another magic byte, with the parity byte that goes with it
HeaderWrongMagic ==
    \E m \in WrongMagics :
        LET h22 == <<m>> \o SubSeq(buf, 2, HeaderLen - 1) IN
        /\ hTrail = "valid"
        /\ res = NoRes
        /\ buf' = h22 \o <<XorAll(h22)>>
        /\ hTrail' = "magic"
        /\ UNCHANGED <<capacity, res, hWritten, hConsumed, hFrame, hGot>>

HeaderWrongParity ==
    \E q \in SampleParities :
        /\ hTrail = "valid"
        /\ res = NoRes
        /\ q # buf[HeaderLen]
        /\ buf' = [buf EXCEPT ![HeaderLen] = q]
        /\ hTrail' = "parity"
        /\ UNCHANGED <<capacity, res, hWritten, hConsumed, hFrame, hGot>>

DoDecodeHeader ==
    LET h == DecodeHeader(buf) IN
    /\ hTrail # "start"
    /\ res' = [err |-> h.err, id |-> h.ID, type |-> h.Type, payload |-> <<>>]
    /\ UNCHANGED <<buf, capacity, hWritten, hConsumed, hFrame, hTrail, hGot>>

NextHeader ==
    \/ HeaderBuild /\ UNCHANGED <<keyVars, brokerVars, lifeVars, poolVars, sideVars>>
    \/ HeaderFlipBit /\ UNCHANGED <<keyVars, brokerVars, lifeVars, poolVars, sideVars>>
    \/ HeaderTruncate /\ UNCHANGED <<keyVars, brokerVars, lifeVars, poolVars, sideVars>>
    \/ HeaderWrongMagic /\ UNCHANGED <<keyVars, brokerVars, lifeVars, poolVars, sideVars>>
    \/ HeaderWrongParity /\ UNCHANGED <<keyVars, brokerVars, lifeVars, poolVars, sideVars>>
    \/ DoDecodeHeader /\ UNCHANGED <<keyVars, brokerVars, lifeVars, poolVars, sideVars>>

SpecHeader == InitBroker /\ [][NextHeader]_vars

\* the positions at which two sequences of one length differ
DiffersAt(a, b) == {i \in 1..Len(a) : a[i] # b[i]}

\* C20: a valid 23-byte header with exactly one bit flipped, in whatever byte,
\* does not decode; fewer than 23 bytes give ErrInvalidHeaderLength; 23 bytes
\* with a wrong magic byte, or with a parity byte that is not the XOR of the
\* 22 bytes before it, give ErrInvalidHeaderBadMagic.
C20_BitFlipRejected ==
    res.err # "none" =>
        /\ hTrail = "flipped" => res.err # "nil"
        /\ Len(buf) < HeaderLen => res.err = "ErrInvalidHeaderLength"
        /\ (Len(buf) = HeaderLen /\ buf[1] # MagicByte)
           => res.err = "ErrInvalidHeaderBadMagic"
        /\ (Len(buf) = HeaderLen /\ buf[HeaderLen] # XorAll(SubSeq(buf, 1, HeaderLen - 1)))
           => res.err = "ErrInvalidHeaderBadMagic"

\* a header that decodes as it is was refused after one bit of its size field
\* was flipped
C20_Witness ==
    /\ hTrail = "flipped"
    /\ res.err = "ErrInvalidHeaderBadMagic"
    /\ DecodeHeader(hWritten).err = "nil"
    /\ \E i \in 19..22 : DiffersAt(buf, hWritten) = {i}

---------------------------------------------------------------------------
(* SpecWaiters: the waiterMap by itself. Time is counted in readings of    *)
(* the clock: two calls of time.Now() may return the same reading.         *)

\* the last reading of the clock in a run
MaxTime == 2
WaiterIDs == {1, 2, 3}
\* the ttl values ReapStale is called with, in clock readings
SampleTTLs == {0, 1, 2}

\* the entries ReapStale(ttl) deletes at time t: now.Sub(entry.createdAt) > ttl
StaleEntries(m, t, ttl) == {id \in DOMAIN m : t - m[id] > ttl}

\* the clock moves on
ClockTick ==
    /\ now < MaxTime
    /\ now' = now + 1
    /\ UNCHANGED <<wm, hReap, hInserted>>

\* waiterMap.NewWaiter: a fresh ID stored with createdAt = time.Now()
WmNewWaiter ==
    \E id \in WaiterIDs \ hInserted :
        /\ wm' = MapStore(wm, id, now)
        /\ hInserted' = hInserted \cup {id}
        /\ UNCHANGED <<now, hReap>>

\* waiterMap.LoadAndDelete of an ID that is in the table
WmLoadAndDelete ==
    \E id \in DOMAIN wm :
        /\ wm' = MapDelete(wm, id)
        /\ UNCHANGED <<now, hReap, hInserted>>

\* waiterMap.ReapStale(ttl): Range over the entries, Delete of the stale ones,
\* the number deleted returned
WmReapStale ==
    \E ttl \in SampleTTLs :
        LET stale == StaleEntries(wm, now, ttl) IN
        /\ wm' = [id \in DOMAIN wm \ stale |-> wm[id]]
        /\ hReap' = [ttl |-> ttl, n |-> Cardinality(stale), met |-> DOMAIN wm,
                     ages |-> {now - wm[id] : id \in DOMAIN wm}]
        /\ UNCHANGED <<now, hInserted>>

NextWaiters ==
    \/ ClockTick /\ UNCHANGED wmRest
    \/ WmNewWaiter /\ UNCHANGED wmRest
    \/ WmLoadAndDelete /\ UNCHANGED wmRest
    \/ WmReapStale /\ UNCHANGED wmRest

SpecWaiters == InitBroker /\ [][NextWaiters]_vars

\* C21 as stated: ReapStale(0) after n inserts and no removal deletes all n
\* entries and returns n, whatever the time between the inserts and the reap;
\* ReapStale(ttl) leaves every entry younger than ttl in the table.
C21_ReapZeroTakesAll ==
    [][hReap' # hReap =>
         /\ (hReap'.ttl = 0 /\ DOMAIN wm = hInserted)
            => /\ hReap'.n = Cardinality(hInserted)
               /\ DOMAIN wm' = {}
         /\ \A id \in DOMAIN wm :
              now - wm[id] < hReap'.ttl => id \in DOMAIN wm']_vars

---------------------------------------------------------------------------
(* Claim about the reaper and the Request it leaves behind, checked under  *)
(* SpecRetry                                                               *)

\* the caller waits in Request's select, its waiter is gone from the table and
\* no response is in its slot or on its way into it: ReapStale removed it
WaiterReaped(c) ==
    /\ caller[c].pc = "wait"
    /\ caller[c].id \notin DOMAIN waiters
    /\ slot[caller[c].id] = <<>>
    /\ \A w \in Workers :
         ~(worker[w].pc = "resp_send" /\ worker[w].id = caller[c].id)

\* C22 as stated: a Request whose waiter the reaper removed returns with an
\* error; it does not keep waiting.
C22_ReapedRequestReturns ==
    \A c \in Callers :
        WaiterReaped(c) ~> (caller[c].pc = "done" /\ caller[c].err # "nil")

---------------------------------------------------------------------------
(* Claim about the CORRUPTED state of a key, checked under SpecKeychain *)

\* C23: a key that is CORRUPTED stays CORRUPTED, whatever lock, unlock or sign
\* is called; no sign on it succeeds any more, and a sign call that reaches
\* its check of the lock state fails without a signature.
C23_CorruptedStays ==
    [][ /\ \A k \in Keys :
             lockState[k] = "CORRUPTED"
             => (lockState'[k] = "CORRUPTED" /\ hSigns'[k] = hSigns[k])
        /\ \A t \in Signers :
             (signer[t].pc = "check" /\ lockState[signer[t].key] = "CORRUPTED"
              /\ signer'[t] # signer[t])
             => (signer'[t].pc = "idle" /\ signer'[t].result = "KeyLocked")
      ]_vars

\* a key became CORRUPTED in the first of two sign calls, and the second sign
\* was refused
C23_Witness ==
    /\ hCalls = 2
    /\ \E k \in Keys : lockState[k] = "CORRUPTED"
    /\ \A k \in Keys : lockState[k] # "LOCKED"
    /\ \E t \in Signers : signer[t].result = "KeyLocked"

---------------------------------------------------------------------------
(* SpecPayload: DecodeAndValidateSignPayload (keychain) on byte strings    *)
(* around the lengths and the field values its checks tell apart.          *)

UNSPECIFIED == 0

\* binary.BigEndian.Uint32
BEUint32(b) == [hi |-> (256 * b[1]) + b[2], lo |-> (256 * b[3]) + b[4]]

\* the four bytes of a uint32 kept as its halves, big-endian
BE4(u) == <<u.hi \div 256, u.hi % 256, u.lo \div 256, u.lo % 256>>

\* int32(u) < 0
Int32Negative(u) == u.hi >= 32768

\* offsets of the block layout and of the (pre)attestation layout
blockLevelOff == 1 + 4
fitnessOff == 1 + 4 + 4 + 1 + 32 + 8 + 1 + 32
blockMinLen == fitnessOff + 4
attLevelOff == 1 + 4 + 32 + 1
attRoundOff == attLevelOff + 4
attMinLen == attRoundOff + 4

SignFail(e) ==
    [kind |-> UNSPECIFIED, level |-> 0, round |-> 0, signBytes |-> <<>>, err |-> e]

\* the decoder were it to take its fields as unsigned
DecodeUnsigned(b) ==
    IF Len(b) < 1 THEN SignFail("errEmptyPayload")
    ELSE IF b[1] = BLOCK
    THEN IF Len(b) < blockMinLen THEN SignFail("errOutOfBounds")
         ELSE LET levelU == BEUint32(Slice(b, blockLevelOff, blockLevelOff + 4))
                  fitnessLenU == BEUint32(Slice(b, fitnessOff, fitnessOff + 4))
              IN  IF U32Gt(fitnessLenU, Len(b) - (fitnessOff + 4))
                  THEN SignFail("errOutOfBounds")
                  ELSE LET roundOff == fitnessOff + U32Int(fitnessLenU)
                           roundU == BEUint32(Slice(b, roundOff, roundOff + 4))
                       IN  [kind |-> BLOCK, level |-> levelU, round |-> roundU,
                            signBytes |-> b, err |-> "nil"]
    ELSE IF b[1] \in {PREATTESTATION, ATTESTATION}
    THEN IF Len(b) < attMinLen THEN SignFail("errOutOfBounds")
         ELSE [kind |-> b[1],
               level |-> BEUint32(Slice(b, attLevelOff, attLevelOff + 4)),
               round |-> BEUint32(Slice(b, attRoundOff, attRoundOff + 4)),
               signBytes |-> b, err |-> "nil"]
    ELSE SignFail("unsupported operation")

\* DecodeAndValidateSignPayload. level and round are returned as the uint32
\* halves of the non-negative int32 read. roundOff + 4 > len(raw) is compared
\* without forming the sum: int is 64 bits wide and the sum never overflows.
DecodeAndValidateSignPayload(b) ==
    IF Len(b) < 1 THEN SignFail("errEmptyPayload")
    ELSE IF b[1] = BLOCK
    THEN IF Len(b) < blockMinLen THEN SignFail("errOutOfBounds")
         ELSE LET levelI32 == BEUint32(Slice(b, blockLevelOff, blockLevelOff + 4))
                  fitnessLenI32 == BEUint32(Slice(b, fitnessOff, fitnessOff + 4))
              IN  IF Int32Negative(levelI32) THEN SignFail("errNegativeLevel")
                  ELSE IF Int32Negative(fitnessLenI32)
                  THEN SignFail("errNegativeFitnessLen")
                  ELSE IF U32Gt(fitnessLenI32, Len(b) - (fitnessOff + 4))
                  THEN SignFail("errOutOfBounds")
                  ELSE LET roundOff == fitnessOff + U32Int(fitnessLenI32)
                           roundI32 == BEUint32(Slice(b, roundOff, roundOff + 4))
                       IN  IF Int32Negative(roundI32) THEN SignFail("errNegativeRound")
                           ELSE [kind |-> BLOCK, level |-> levelI32,
                                 round |-> roundI32, signBytes |-> b, err |-> "nil"]
    ELSE IF b[1] \in {PREATTESTATION, ATTESTATION}
    THEN IF Len(b) < attMinLen THEN SignFail("errOutOfBounds")
         ELSE LET levelI32 == BEUint32(Slice(b, attLevelOff, attLevelOff + 4))
                  roundI32 == BEUint32(Slice(b, attRoundOff, attRoundOff + 4))
              IN  IF Int32Negative(levelI32) THEN SignFail("errNegativeLevel")
                  ELSE IF Int32Negative(roundI32) THEN SignFail("errNegativeRound")
                  ELSE [kind |-> IF b[1] = PREATTESTATION THEN PREATTESTATION
                                 ELSE ATTESTATION,
                        level |-> levelI32, round |-> roundI32,
                        signBytes |-> b, err |-> "nil"]
    ELSE SignFail("unsupported operation")

\* the first bytes payloads start with: the three tags, their neighbours, zero
SampleTags == {0, BLOCK - 1, BLOCK, PREATTESTATION, ATTESTATION, ATTESTATION + 1}
\* payload lengths around the minimum lengths of the two layouts
SampleLens ==
    {0, 1, attMinLen - 1, attMinLen, attMinLen + 1, blockMinLen - 1, blockMinLen,
     blockMinLen + 1, blockMinLen + 3, blockMinLen + 4, blockMinLen + 5,
     blockMinLen + 8}
\* values of a 32-bit field: 0, 1, 2^31 - 1, 2^31, 2^32 - 1
SampleFields ==
    {U32(0), U32(1), U32(2147483647), [hi |-> 32768, lo |-> 0],
     [hi |-> 65535, lo |-> 65535]}
\* values of the fitness length field
SampleFitnessLens ==
    {U32(0), U32(1), U32(4), U32(8), U32(2147483647), [hi |-> 32768, lo |-> 0]}
\* the byte the rest of a payload is filled with
SampleFill == {0, 255}

\* s with the four bytes b4 at offset off (0-based), as far as s reaches
Put4(s, off, b4) ==
    [i \in 1..Len(s) |-> IF i > off /\ i <= off + 4 THEN b4[i - off] ELSE s[i]]

\* a payload of n bytes in the layout of its tag
PayloadOf(tag, n, fill, level, fitnessLen, round) ==
    LET base == [i \in 1..n |-> IF i = 1 THEN tag ELSE fill] IN
    IF tag = BLOCK
    THEN LET withLen == Put4(Put4(base, blockLevelOff, BE4(level)),
                             fitnessOff, BE4(fitnessLen))
         IN  IF fitnessLen.hi = 0
             THEN Put4(withLen, fitnessOff + fitnessLen.lo, BE4(round))
             ELSE withLen
    ELSE Put4(Put4(base, attLevelOff, BE4(level)), attRoundOff, BE4(round))

InitPayload ==
    /\ \E tag \in SampleTags, n \in SampleLens, fill \in SampleFill,
          level \in SampleFields, fitnessLen \in SampleFitnessLens,
          round \in SampleFields :
           raw = PayloadOf(tag, n, fill, level, fitnessLen, round)
    /\ decoded = NotDecoded
    /\ WmIdle /\ HttpIdle /\ FfsIdle /\ WdIdle /\ AgainIdle
    /\ BrokerIdle /\ StashIdle /\ KeychainIdle /\ PoolIdle

\* one call of DecodeAndValidateSignPayload
DoDecodeSignPayload ==
    /\ decoded = NotDecoded
    /\ decoded' = DecodeAndValidateSignPayload(raw)
    /\ UNCHANGED raw

NextPayload ==
    DoDecodeSignPayload /\ UNCHANGED payloadRest

SpecPayload == InitPayload /\ [][NextPayload]_vars

---------------------------------------------------------------------------
(* Claims about the sign payload decoder, checked under SpecPayload *)

\* the uint32 at offset off (0-based) of the payload, big-endian
FieldAt(off) == BEUint32(SubSeq(raw, off + 1, off + 4))

\* the payload reaches to the end of every field read from it
LongEnough ==
    IF raw[1] = 17
    THEN /\ Len(raw) >= 87
         /\ ~U32Gt(FieldAt(83), Len(raw) - 87)
    ELSE Len(raw) >= 46

\* the fields read are non-negative as int32
FieldsNonNegative ==
    IF raw[1] = 17
    THEN /\ FieldAt(5).hi < 32768
         /\ FieldAt(83).hi < 32768
         /\ FieldAt(83 + U32Int(FieldAt(83))).hi < 32768
    ELSE FieldAt(38).hi < 32768 /\ FieldAt(42).hi < 32768

ShouldDecode ==
    /\ Len(raw) >= 1
    /\ raw[1] \in {17, 18, 19}
    /\ LongEnough
    /\ FieldsNonNegative

SignPayloadErrors ==
    {"errEmptyPayload", "errOutOfBounds", "errNegativeLevel", "errNegativeRound",
     "errNegativeFitnessLen", "unsupported operation"}

\* C24: DecodeAndValidateSignPayload succeeds exactly when the first byte is
\* 0x11, 0x12 or 0x13, the payload is long enough for the fields read, and
\* level, round and (block) fitness length are non-negative as int32; then it
\* returns the kind of the tag, the level at offset 5 (block) or 38, the round
\* at offset 83 + fitness_len (block) or 42, and the input bytes; otherwise it
\* returns one of its errors.
C24_DecodeSignPayload ==
    decoded # NotDecoded =>
        /\ (decoded.err = "nil") <=> ShouldDecode
        /\ ShouldDecode =>
             /\ decoded.kind = raw[1]
             /\ decoded.level = (IF raw[1] = 17 THEN FieldAt(5) ELSE FieldAt(38))
             /\ decoded.round = (IF raw[1] = 17
                                 THEN FieldAt(83 + U32Int(FieldAt(83)))
                                 ELSE FieldAt(42))
             /\ decoded.signBytes = raw
        /\ ~ShouldDecode => decoded.err \in SignPayloadErrors

\* a block with a fitness blob of 8 bytes decoded to level 2^31 - 1, round 1
C24_Witness ==
    /\ decoded.err = "nil"
    /\ decoded.kind = BLOCK
    /\ FieldAt(83) = U32(8)
    /\ decoded.level = U32(2147483647)
    /\ decoded.round = U32(1)

\* a preattestation of exactly the minimum length decoded
C24_WitnessAtt ==
    /\ decoded.err = "nil"
    /\ decoded.kind = PREATTESTATION
    /\ Len(raw) = 46
    /\ decoded.level = U32(1)
    /\ decoded.round = U32(2147483647)

\* C25 as stated: a block payload shorter than fitness_off + 8 = 91 bytes is
\* rejected as out of bounds whatever its fitness length field holds (one with
\* a negative level or fitness length may be refused for that instead).
C25_ShortBlockRejected ==
    (decoded # NotDecoded /\ Len(raw) >= 1 /\ raw[1] = 17 /\ Len(raw) < 91) =>
        /\ decoded.err # "nil"
        /\ (Len(raw) >= 87 /\ FieldAt(5).hi < 32768 /\ FieldAt(83).hi < 32768)
           => decoded.err = "errOutOfBounds"

---------------------------------------------------------------------------
(* SpecHttp: the handler of POST /keys/:tz4 (app/host/http.go) on every    *)
(* request and every outcome of the remote sign call.                      *)

RpcKeyNotFound == 31
RpcKeyLocked == 32
RpcStaleWatermark == 33
RpcBadPayload == 34

StatusOK == 200
StatusBadRequest == 400
StatusForbidden == 403
StatusNotFound == 404
StatusConflict == 409
StatusInternalServerError == 500

\* the length EncodeBLSignature asks of a signature
BLST_P2_COMPRESS_BYTES == 96

\* the addresses of the allow-list, and the path parameters requests carry
AllowedTZ4 == {"tz4a"}
SampleTZ4 == {"", "tz4a", "tz4b"}
\* codes a RemoteError carries: the four known ones, their neighbours, others
SampleCodes == {0, 30, 31, 32, 33, 34, 35, 500}
\* lengths of the signature a successful remote call returns
SampleSigLens == {0, BLST_P2_COMPRESS_BYTES - 1, BLST_P2_COMPRESS_BYTES,
                  BLST_P2_COMPRESS_BYTES + 1}

\* signer.EncodeBLSignature: its error
EncodeBLSignatureErr(sigLen) ==
    IF sigLen # BLST_P2_COMPRESS_BYTES THEN "errSigNot96Bytes" ELSE "nil"

Respond(status, body) == [status |-> status, body |-> body]

\* the handler with every remote error answered alike
PostKeyFlat(req) ==
    IF req.tz4 = "" THEN Respond(StatusBadRequest, "error")
    ELSE IF ~req.bodyOk THEN Respond(StatusBadRequest, "error")
    ELSE IF ~req.hexOk THEN Respond(StatusBadRequest, "error")
    ELSE IF req.tz4 \notin AllowedTZ4 THEN Respond(StatusNotFound, "error")
    ELSE IF req.outcome # "ok" THEN Respond(StatusInternalServerError, "error")
    ELSE IF EncodeBLSignatureErr(req.sigLen) # "nil"
         THEN Respond(StatusInternalServerError, "error")
    ELSE Respond(StatusOK, "signature")

\* the handler of POST /keys/:tz4: the status and the kind of body it writes
PostKey(req) ==
    IF req.tz4 = "" THEN Respond(StatusBadRequest, "error")
    ELSE IF ~req.bodyOk THEN Respond(StatusBadRequest, "error")
    ELSE IF ~req.hexOk THEN Respond(StatusBadRequest, "error")
    ELSE IF req.tz4 \notin AllowedTZ4 THEN Respond(StatusNotFound, "error")
    ELSE IF req.outcome = "remote"
         THEN CASE req.code = RpcKeyNotFound -> Respond(StatusNotFound, "error")
                [] req.code = RpcKeyLocked -> Respond(StatusForbidden, "error")
                [] req.code = RpcStaleWatermark -> Respond(StatusConflict, "error")
                [] req.code = RpcBadPayload -> Respond(StatusBadRequest, "error")
                [] OTHER -> Respond(StatusInternalServerError, "error")
    ELSE IF req.outcome = "other" THEN Respond(StatusInternalServerError, "error")
    ELSE IF EncodeBLSignatureErr(req.sigLen) # "nil"
         THEN Respond(StatusInternalServerError, "error")
    ELSE Respond(StatusOK, "signature")

\* the requests: path parameter, body, and what common.ReqSign returns when it
\* is called: a signature, a RemoteError with a code, or another error
SampleRequests ==
    { [tz4 |-> t, bodyOk |-> b, hexOk |-> h, outcome |-> "ok", code |-> 0,
       sigLen |-> n] : t \in SampleTZ4, b \in BOOLEAN, h \in BOOLEAN,
                       n \in SampleSigLens }
    \cup
    { [tz4 |-> t, bodyOk |-> b, hexOk |-> h, outcome |-> "remote", code |-> c,
       sigLen |-> 0] : t \in SampleTZ4, b \in BOOLEAN, h \in BOOLEAN,
                       c \in SampleCodes }
    \cup
    { [tz4 |-> t, bodyOk |-> b, hexOk |-> h, outcome |-> "other", code |-> 0,
       sigLen |-> 0] : t \in SampleTZ4, b \in BOOLEAN, h \in BOOLEAN }

InitHttp ==
    /\ httpReq \in SampleRequests
    /\ httpResp = NoResponse
    /\ WmIdle /\ PayloadIdle /\ FfsIdle /\ WdIdle /\ AgainIdle
    /\ BrokerIdle /\ StashIdle /\ KeychainIdle /\ PoolIdle

\* the handler runs
DoPostKey ==
    /\ httpResp = NoResponse
    /\ httpResp' = PostKey(httpReq)
    /\ UNCHANGED httpReq

NextHttp == DoPostKey /\ UNCHANGED httpRest

SpecHttp == InitHttp /\ [][NextHttp]_vars

\* the request reached the remote sign call
SignCalled ==
    /\ httpResp # NoResponse
    /\ httpReq.tz4 \in AllowedTZ4
    /\ httpReq.bodyOk
    /\ httpReq.hexOk

\* the statuses for the outcomes other than success
ErrorMapping ==
    /\ (httpReq.outcome = "remote" /\ httpReq.code = 31) => httpResp.status = 404
    /\ (httpReq.outcome = "remote" /\ httpReq.code = 32) => httpResp.status = 403
    /\ (httpReq.outcome = "remote" /\ httpReq.code = 33) => httpResp.status = 409
    /\ (httpReq.outcome = "remote" /\ httpReq.code = 34) => httpResp.status = 400
    /\ (httpReq.outcome = "remote" /\ httpReq.code \notin {31, 32, 33, 34})
       => httpResp.status = 500
    /\ httpReq.outcome = "other" => httpResp.status = 500

\* C26 as stated: 31 gives 404, 32 gives 403, 33 gives 409, 34 gives 400, every
\* other remote code and every non-remote error gives 500, and success gives
\* 200 with the signature.
C26_StatusMapping ==
    SignCalled =>
        /\ ErrorMapping
        /\ httpReq.outcome = "ok"
           => (httpResp.status = 200 /\ httpResp.body = "signature")

\* C26 amended: the same, success giving 200 with the signature when the
\* signature returned has the 96 bytes EncodeBLSignature asks for, else 500.
C26_StatusMappingEncoded ==
    SignCalled =>
        /\ ErrorMapping
        /\ (httpReq.outcome = "ok" /\ httpReq.sigLen = 96)
           => (httpResp.status = 200 /\ httpResp.body = "signature")
        /\ (httpReq.outcome = "ok" /\ httpReq.sigLen # 96)
           => (httpResp.status = 500 /\ httpResp.body = "error")

\* a remote stale-watermark error was answered with 409
C26_Witness ==
    /\ SignCalled
    /\ httpReq.outcome = "remote"
    /\ httpReq.code = 33
    /\ httpResp.status = 409

\* a signature of 96 bytes was answered with 200
C26_WitnessOk ==
    /\ SignCalled
    /\ httpReq.outcome = "ok"
    /\ httpReq.sigLen = 96
    /\ httpResp = Respond(200, "signature")

---------------------------------------------------------------------------
(* SpecFfs: Reader.ReadContext and Writer.WriteContext. Each call starts a *)
(* goroutine that makes the syscall and sends its result on a one-place    *)
(* channel, then selects between the context and the channel. The syscall  *)
(* may never return.                                                       *)

\* calls made per endpoint in a run
MaxFfsCalls == 2

\* what the goroutine sends: bytes moved with no error, nothing moved with no
\* error, or an errno. unix.Read and unix.Write return errno values, none of
\* which is os.ErrDeadlineExceeded.
SyscallResults ==
    {[n |-> 1, err |-> "nil"], [n |-> 0, err |-> "nil"], [n |-> 0, err |-> "EIO"]}

\* ctx.Err()
CtxErr(cancelled) == IF cancelled THEN "ctx.Err" ELSE "nil"

\* the call starts: the channel is made, the goroutine is started and the
\* call is at its select; the context may be cancelled already
FfsCall(k) ==
    /\ ffs[k].pc \in {"idle", "returned"}
    /\ hFfsCalls[k] < MaxFfsCalls
    /\ hFfsCalls' = [hFfsCalls EXCEPT ![k] = @ + 1]
    /\ \E c \in BOOLEAN :
         ffs' = [ffs EXCEPT ![k] = [NoCall EXCEPT !.pc = "select", !.ctxDone = c,
                                                  !.sys = "blocked"]]
    /\ UNCHANGED <<leakedReaders, leakedWriters>>

\* the context of the call in progress is cancelled
FfsCancel(k) ==
    /\ ffs[k].pc = "select"
    /\ ~ffs[k].ctxDone
    /\ ffs' = [ffs EXCEPT ![k].ctxDone = TRUE]
    /\ UNCHANGED <<leakedReaders, leakedWriters, hFfsCalls>>

\* the syscall returns and the goroutine sends the result; the channel has
\* one place, so the send never blocks
FfsSyscallReturn(k) ==
    /\ ffs[k].sys = "blocked"
    /\ \E r \in SyscallResults :
         ffs' = [ffs EXCEPT ![k].sys = "sent", ![k].chan = <<r>>]
    /\ UNCHANGED <<leakedReaders, leakedWriters, hFfsCalls>>

\* the select's case <-ctx.Done() without the count of the leak
FfsSelectCtxUncounted(k) ==
    /\ ffs[k].pc = "select"
    /\ ffs[k].ctxDone
    /\ ffs' = [ffs EXCEPT ![k].pc = "returned",
                          ![k].ret = [n |-> 0, err |-> CtxErr(TRUE)]]
    /\ UNCHANGED <<leakedReaders, leakedWriters, hFfsCalls>>

\* the select's case <-ctx.Done(): count the leak, return 0 and ctx.Err()
FfsSelectCtx(k) ==
    /\ ffs[k].pc = "select"
    /\ ffs[k].ctxDone
    /\ leakedReaders' = IF k = "read" THEN leakedReaders + 1 ELSE leakedReaders
    /\ leakedWriters' = IF k = "write" THEN leakedWriters + 1 ELSE leakedWriters
    /\ ffs' = [ffs EXCEPT ![k].pc = "returned",
                          ![k].ret = [n |-> 0, err |-> CtxErr(TRUE)]]
    /\ UNCHANGED hFfsCalls

\* the select's case res := <-readChan (writeChan)
FfsSelectResult(k) ==
    /\ ffs[k].pc = "select"
    /\ ffs[k].chan # <<>>
    /\ LET r == Head(ffs[k].chan) IN
       ffs' = [ffs EXCEPT ![k].pc = "returned", ![k].chan = <<>>,
                          ![k].ret = IF r.err = "os.ErrDeadlineExceeded"
                                     THEN [n |-> 0, err |-> CtxErr(ffs[k].ctxDone)]
                                     ELSE r]
    /\ UNCHANGED <<leakedReaders, leakedWriters, hFfsCalls>>

NextFfs ==
    \/ \E k \in Endpoints : FfsCall(k) /\ UNCHANGED ffsRest
    \/ \E k \in Endpoints : FfsCancel(k) /\ UNCHANGED ffsRest
    \/ \E k \in Endpoints : FfsSyscallReturn(k) /\ UNCHANGED ffsRest
    \/ \E k \in Endpoints : FfsSelectCtx(k) /\ UNCHANGED ffsRest
    \/ \E k \in Endpoints : FfsSelectResult(k) /\ UNCHANGED ffsRest

\* a select with a ready case is run; nothing makes the syscall return
FairFfs ==
    \A k \in Endpoints : WF_vars((FfsSelectCtx(k) \/ FfsSelectResult(k)) /\ UNCHANGED ffsRest)

SpecFfs == InitBroker /\ [][NextFfs]_vars /\ FairFfs

\* the leak counter of an endpoint
LeakCount(k) == IF k = "read" THEN leakedReaders ELSE leakedWriters
LeakCountNext(k) == IF k = "read" THEN leakedReaders' ELSE leakedWriters'

\* C27: a call whose context is cancelled returns, also when its syscall never
\* does; while the syscall has not returned it returns 0 and the context's
\* error; a call that returns the context's error adds exactly one to the
\* counter of its endpoint, and no other step changes a counter.
C27_CancelReturns ==
    /\ \A k \in Endpoints :
         (ffs[k].pc = "select" /\ ffs[k].ctxDone) ~> (ffs[k].pc = "returned")
    /\ [][\A k \in Endpoints :
            IF ffs[k].pc = "select" /\ ffs'[k].pc = "returned"
            THEN /\ ffs[k].chan = <<>> => ffs'[k].ret = [n |-> 0, err |-> "ctx.Err"]
                 /\ ffs'[k].ret.err = "ctx.Err" => ffs[k].ctxDone
                 /\ LeakCountNext(k) =
                      LeakCount(k) + (IF ffs'[k].ret.err = "ctx.Err" THEN 1 ELSE 0)
            ELSE ffs'[k] # ffs[k] => LeakCountNext(k) = LeakCount(k)]_vars

\* two reads were cancelled while their syscalls were blocked and both were
\* counted
C27_Witness ==
    /\ leakedReaders = 2
    /\ ffs["read"].pc = "returned"
    /\ ffs["read"].sys = "blocked"
    /\ ffs["read"].ret = [n |-> 0, err |-> "ctx.Err"]

---------------------------------------------------------------------------
(* SpecWatchdog: Notifier.StartPinger, the pinger goroutine it starts and   *)
(* the cleanup function it returns. StartPinger and the cleanups may be     *)
(* called from different goroutines.                                        *)

\* WatchdogInterval(): 0 when WATCHDOG_USEC is unset, else half of it
SampleIntervals == {0, 1}

\* the pingers whose goroutine is in its loop
RunningPingers == {p \in Pingers : pinger[p].state = "running"}

\* the pingers not started yet
FreePingers == {p \in Pingers : pinger[p].state = "none"}

\* n.StartPinger(ctx): nothing for interval 0; nothing when the compare and
\* swap of running from false to true fails; else the goroutine is started
StartPinger(c, interval) ==
    /\ FreePingers # {}
    /\ IF interval = 0 \/ running
       THEN /\ hLastStart' = "noop"
            /\ UNCHANGED <<running, pinger>>
       ELSE /\ running' = TRUE
            /\ LET p == CHOOSE q \in FreePingers : \A r \in FreePingers : q <= r IN
               pinger' = [pinger EXCEPT ![p] = [state |-> "running", ctx |-> c]]
            /\ hLastStart' = "started"
    /\ UNCHANGED <<pingCtxDone, cleanup, pinged>>

\* the goroutine's case <-ticker.C: Ping
PingerTick(p) ==
    /\ pinger[p].state = "running"
    /\ pinged' = pinged \cup {p}
    /\ UNCHANGED <<running, pinger, pingCtxDone, cleanup, hLastStart>>

\* the goroutine's case <-ctx.Done(): return, closing done
PingerExit(p) ==
    /\ pinger[p].state = "running"
    /\ pingCtxDone[pinger[p].ctx]
    /\ pinger' = [pinger EXCEPT ![p].state = "exited"]
    /\ UNCHANGED <<running, pingCtxDone, cleanup, pinged, hLastStart>>

\* cancel() of a context
WdCancel(c) ==
    /\ ~pingCtxDone[c]
    /\ pingCtxDone' = [pingCtxDone EXCEPT ![c] = TRUE]
    /\ UNCHANGED <<running, pinger, cleanup, pinged, hLastStart>>

\* the cleanup of pinger p is called: n.running.Store(false), then it waits
\* on done
CleanupCall(p) ==
    /\ pinger[p].state # "none"
    /\ cleanup[p] # "waiting"
    /\ running' = FALSE
    /\ cleanup' = [cleanup EXCEPT ![p] = "waiting"]
    /\ UNCHANGED <<pinger, pingCtxDone, pinged, hLastStart>>

\* <-done: the cleanup returns once the goroutine has closed done
CleanupReturn(p) ==
    /\ cleanup[p] = "waiting"
    /\ pinger[p].state = "exited"
    /\ cleanup' = [cleanup EXCEPT ![p] = "returned"]
    /\ UNCHANGED <<running, pinger, pingCtxDone, pinged, hLastStart>>

NextWatchdog ==
    \/ \E c \in Contexts, iv \in SampleIntervals : StartPinger(c, iv) /\ UNCHANGED wdRest
    \/ \E p \in Pingers : PingerTick(p) /\ UNCHANGED wdRest
    \/ \E p \in Pingers : PingerExit(p) /\ UNCHANGED wdRest
    \/ \E c \in Contexts : WdCancel(c) /\ UNCHANGED wdRest
    \/ \E p \in Pingers : CleanupCall(p) /\ UNCHANGED wdRest
    \/ \E p \in Pingers : CleanupReturn(p) /\ UNCHANGED wdRest

\* a goroutine whose select has a ready case runs; nothing cancels a context
FairWatchdog ==
    \A p \in Pingers :
        /\ WF_vars(PingerExit(p) /\ UNCHANGED wdRest)
        /\ WF_vars(CleanupReturn(p) /\ UNCHANGED wdRest)

SpecWatchdog == InitBroker /\ [][NextWatchdog]_vars /\ FairWatchdog

\* C28: at most one pinger goroutine of the Notifier is in its loop.
C28_OnePinger == Cardinality(RunningPingers) <= 1

\* C29: a called cleanup returns and its pinger goroutine has terminated.
C29_CleanupStops ==
    \A p \in Pingers :
        (cleanup[p] = "waiting") ~> (cleanup[p] = "returned" /\ pinger[p].state = "exited")

---------------------------------------------------------------------------
(* SpecLoops: the read loop and the writer loop by themselves, with every   *)
(* outcome of ReadContext and WriteContext; one endpoint fails at a time.   *)

NextLoops ==
    \/ \E f \in LifecycleFrames : ReadLoopRecv(f)
    \/ ReadLoopRecvEmpty
    \/ \E k \in ErrorKinds : ReadLoopError(k) /\ consecutiveErrors.write = 0
    \/ ReadLoopRetryWrite
    \/ WriterTake
    \/ WriterWrite
    \/ \E k \in ErrorKinds : WriterError(k) /\ consecutiveErrors.read = 0

SpecLoops == InitBroker /\ [][NextLoops]_vars

\* C30: each loop's error counter is the number of reads (writes) that have
\* failed since the last one that returned no error, and right after a
\* successful read (write) the backoff is initialBackoff; so a loop gives
\* up at maxConsecutiveErrors failures in a row, not before.
C30_ResetOnSuccess ==
    \A k \in {"read", "write"} :
        /\ consecutiveErrors[k] = hFailsInRow[k]
        /\ hFailsInRow[k] = 0 => backoff[k] = initialBackoff

---------------------------------------------------------------------------
(* The loops' classification of errors, checked under SpecHealth            *)

\* the errors isRetryable is asked about
SampleErrors ==
    {"nil", "EBADF", "ENOENT", "EIO", "EAGAIN", "context.Canceled",
     "context.DeadlineExceeded"}

RetryFrame == Frame(payloadTypeRetry, 0, "")

\* on a fatal error each loop exits in the same step, leaving the write
\* channel and its backoff as they are; a loop that has exited reads and
\* writes no more
FatalExitsAtOnce ==
    [][ /\ \A k \in ErrorKinds :
              (isFatal(k) /\ ReadLoopError(k)) =>
                  (readLoop' = "exited" /\ writeChan' = writeChan /\ backoff' = backoff)
        /\ \A k \in ErrorKinds :
              (isFatal(k) /\ WriterError(k)) =>
                  (writerLoop'.pc = "exited" /\ writeChan' = writeChan /\ backoff' = backoff)
        /\ readLoop = "exited" =>
              (readLoop' = "exited" /\ hRecv' = hRecv
               /\ consecutiveErrors'.read = consecutiveErrors.read)
        /\ writerLoop.pc = "exited" =>
              (writerLoop' = writerLoop
               /\ consecutiveErrors'.write = consecutiveErrors.write)
      ]_vars

\* a read error sends the loop to write a retry frame exactly when it is
\* retryable and the count stays below the limit; the backoff moves only in
\* the step that follows the retry write
RetryWhenRetryable ==
    [][ /\ \A k \in ErrorKinds :
              ReadLoopError(k) =>
                  ((readLoop' = "retry_write") <=>
                      (isRetryable(k)
                       /\ consecutiveErrors'.read < maxConsecutiveErrors))
        /\ backoff'.read # backoff.read /\ backoff'.read # initialBackoff
              => readLoop = "retry_write"
      ]_vars

\* isRetryable as the claim describes it
RetryableExactly ==
    \A e \in SampleErrors :
        isRetryable(e) <=>
            (/\ e # "nil"
             /\ e \notin {"EBADF", "ENOENT"}
             /\ e \notin {"context.Canceled", "context.DeadlineExceeded"})

\* C31 as stated: fatal errors end the loops at once; a retryable read error
\* below the limit is followed by exactly one retry frame put on the write
\* channel before the backoff; isRetryable is as described.
C31_FatalExitRetryOnce ==
    /\ FatalExitsAtOnce
    /\ RetryWhenRetryable
    /\ [](RetryableExactly)
    /\ [][readLoop = "retry_write" /\ readLoop' # "retry_write"
            => writeChan' = Append(writeChan, RetryFrame)]_vars

\* C31 amended: the same, but the retry frame may be missing when the
\* broker's context is cancelled by then.
C31_FatalExitRetryUnlessShutdown ==
    /\ FatalExitsAtOnce
    /\ RetryWhenRetryable
    /\ [](RetryableExactly)
    /\ [][readLoop = "retry_write" /\ readLoop' # "retry_write"
            => \/ writeChan' = Append(writeChan, RetryFrame)
               \/ ctxDone /\ writeChan' = writeChan]_vars

\* the read loop met a retryable error, put a retry frame on the write
\* channel and backed off, then met a fatal error and exited; no Stop
C31_Witness ==
    /\ readLoop = "exited"
    /\ consecutiveErrors.read = 2
    /\ backoff.read = NextBackoff(initialBackoff)
    /\ ~ctxDone
    /\ hEnq # Empty

---------------------------------------------------------------------------
(* Retransmission, checked under SpecRequest                                *)

\* the request frames for an ID put on the write channel so far
ReqEnqueued(h, id) ==
    LET fs == {f \in DOMAIN h : f.type = payloadTypeRequest /\ f.id = id}
        Sum[S \in SUBSET fs] ==
            IF S = {} THEN 0
            ELSE LET f == CHOOSE x \in S : TRUE IN h[f] + Sum[S \ {f}]
    IN Sum[fs]

\* this step is the Request call for id putting its own frame on the channel
OwnWrite(id) ==
    \E c \in Callers :
        caller[c].pc = "write" /\ caller[c].id = id /\ caller'[c].pc = "wait"

\* C32: a request frame for an ID is put on the write channel by its Request
\* call or, for a retry frame, while the ID is unconfirmed: never for an ID
\* that an accept frame (or anything else) has taken out of the unconfirmed
\* set; an ID is sent at most once more than the retry frames processed while
\* it was unconfirmed; and the passing of time and the reaper send nothing.
C32_RetransmitOnlyUnconfirmed ==
    /\ [][\A id \in MsgIDs :
            ReqEnqueued(hEnq', id) > ReqEnqueued(hEnq, id) =>
                /\ ReqEnqueued(hEnq', id) = ReqEnqueued(hEnq, id) + 1
                /\ OwnWrite(id) \/ id \in DOMAIN unconfirmedRequests
                /\ ~(TimePasses \/ ReaperTick)]_vars
    /\ [](\A id \in MsgIDs : ReqEnqueued(hEnq, id) <= 1 + Count(hRetryHits, id))

---------------------------------------------------------------------------
(* The order of handleWork's steps for a request, checked under SpecServe   *)

\* C33: a worker that writes the accept frame, enters the handler or writes
\* the response frame for an ID does so with the ID in the processing set;
\* the ID leaves the set only after the response frame has been written.
C33_UnmarkAfterResponse ==
    [][\A w \in Workers :
          /\ (worker[w].pc \in {"req_accept", "req_call", "req_resp"}
              /\ worker'[w].pc # worker[w].pc)
                => worker[w].id \in processingRequests
          /\ (worker[w].id \in processingRequests
              /\ worker[w].id \notin processingRequests')
                => worker[w].pc \notin {"req_accept", "req_call", "in_handler",
                                        "req_delete"}
      ]_vars

---------------------------------------------------------------------------
(* SpecSplit: one frame reaches the stash in pieces, as successive reads of *)
(* the endpoint deliver it, with ReadPayload calls between the pieces.      *)

\* the read loop hands the next k bytes of the frame to stash.Write; the
\* first piece fixes the frame
WriteFramePart ==
    \E t \in SampleTypes, id \in SampleIDs, p \in SeqsUpTo(SampleBytes, MaxPayloadLen) :
        LET f == newMessage(t, id, p).frame
            from == Len(hWritten)
        IN
        /\ hFrame \in {NoFrame, [pos |-> 0, type |-> t, id |-> id, payload |-> p]}
        /\ from < Len(f)
        /\ \E k \in 1..(Len(f) - from) :
             LET d == SubSeq(f, from + 1, from + k) IN
             /\ buf' = StashWrite(buf, capacity, d)
             /\ hConsumed' = hConsumed + StashWriteDrop(buf, capacity, d)
             /\ hWritten' = hWritten \o d
        /\ hFrame' = [pos |-> 0, type |-> t, id |-> id, payload |-> p]
        /\ hTrail' = "other"
        /\ UNCHANGED <<capacity, res, hGot>>

NextSplit ==
    \/ WriteFramePart /\ UNCHANGED <<keyVars, brokerVars, lifeVars, poolVars, sideVars>>
    \/ DoReadPayload /\ UNCHANGED <<keyVars, brokerVars, lifeVars, poolVars, sideVars>>

SpecSplit == InitBroker /\ [][NextSplit]_vars

\* C34: while the frame has not been returned, every byte of it written so
\* far is still in the stash, whatever its length from 1 byte on; and a
\* ReadPayload that ends a drain after the last byte has arrived has returned
\* the frame.
C34_PartialFrameKept ==
    hFrame # NoFrame =>
        /\ ~FrameReturned => buf = hWritten
        /\ (Len(hWritten) = Len(TheFrame.frame) /\ DrainEnded) => FrameReturned

---------------------------------------------------------------------------
(* The unconfirmed set at the return of Request, checked under SpecRequest  *)

\* C35: the ID of a Request call that has returned is not in the unconfirmed
\* set: every unconfirmed ID belongs to a call still in progress.
C35_ReturnedNotUnconfirmed ==
    \A c \in Callers :
        caller[c].pc = "done" => caller[c].id \notin DOMAIN unconfirmedRequests

---------------------------------------------------------------------------
(* SpecWriter: the writer loop with its errors against one worker that      *)
(* serves the peer's requests (an accept frame, then a response frame, for  *)
(* each), and Stop's cancellation.                                          *)

NextWriter ==
    \/ \E f \in RequestFrames : ReadLoopRecv(f)
    \/ \E w \in OneWorker : WorkerTake(w)
    \/ \E w \in OneWorker : ReqStore(w)
    \/ \E w \in OneWorker : ReqAccept(w)
    \/ \E w \in OneWorker : HandlerCall(w)
    \/ \E w \in OneWorker : HandlerReturn(w)
    \/ \E w \in OneWorker : ReqDelete(w)
    \/ \E w \in OneWorker : ReqRespond(w)
    \/ WriterTake
    \/ WriterWrite
    \/ \E k \in ErrorKinds : WriterError(k)
    \/ WriterLoopExit
    \/ StopCall

SpecWriter == InitBroker /\ [][NextWriter]_vars

\* C36: the write channel gains frames at its tail and loses them at its
\* head, to the idle writer loop only; the loop keeps the frame it took,
\* through every error it retries after, until WriteContext has returned no
\* error for it or the loop exits.
C36_WriterInOrder ==
    [][ /\ writeChan' # writeChan =>
              \/ /\ Len(writeChan') = Len(writeChan) + 1
                 /\ SubSeq(writeChan', 1, Len(writeChan)) = writeChan
              \/ /\ writeChan' = Tail(writeChan)
                 /\ writerLoop.pc = "idle"
                 /\ writerLoop' = [pc |-> "write", data |-> Head(writeChan)]
        /\ writerLoop.pc = "write" =>
              \/ writerLoop' = writerLoop
              \/ writerLoop'.pc = "exited"
              \/ /\ writerLoop' = IdleWriter
                 /\ consecutiveErrors'.write = 0
                 /\ hFailsInRow'.write = 0
        /\ writerLoop.pc = "idle" /\ writerLoop'.pc = "write" =>
              /\ writeChan # <<>>
              /\ writerLoop'.data = Head(writeChan)
      ]_vars

\* the accept frame was written; the response frame met two errors, is still
\* the writer's frame, and a second accept frame waits behind it
C36_Witness ==
    /\ writerLoop.pc = "write"
    /\ writerLoop.data.type = payloadTypeResponse
    /\ consecutiveErrors.write = 2
    /\ writeChan # <<>>
    /\ Head(writeChan).type = payloadTypeAcceptRequest
    /\ ~ctxDone

---------------------------------------------------------------------------
(* SpecPayload32: DecodeAndValidateSignPayload as a build with a 32-bit int *)
(* (GOARCH=arm) computes it. roundOff := fitnessOff + int(fitnessLenI32)    *)
(* and roundOff+4 wrap around modulo 2^32.                                  *)

MaxInt32 == 2147483647

\* a + b in int32 arithmetic, for a >= 0 and b >= 0
AddInt32(a, b) ==
    IF a > MaxInt32 - b THEN ((a - MaxInt32) + (b - MaxInt32)) - 2 ELSE a + b

\* a + b in int32 arithmetic, for b >= 0 and any a
AddOff32(a, b) == IF a < 0 THEN a + b ELSE AddInt32(a, b)

SignPanic == SignFail("panic: slice bounds out of range")

\* the block case with int 32 bits wide; the other cases form no sum
DecodeAndValidateSignPayload32(b) ==
    IF Len(b) >= 1 /\ b[1] = BLOCK /\ Len(b) >= blockMinLen
    THEN LET levelI32 == BEUint32(Slice(b, blockLevelOff, blockLevelOff + 4))
             fitnessLenI32 == BEUint32(Slice(b, fitnessOff, fitnessOff + 4))
         IN  IF Int32Negative(levelI32) THEN SignFail("errNegativeLevel")
             ELSE IF Int32Negative(fitnessLenI32)
             THEN SignFail("errNegativeFitnessLen")
             ELSE LET roundOff == AddInt32(fitnessOff, U32Int(fitnessLenI32)) IN
                  IF AddOff32(roundOff, 4) > Len(b) THEN SignFail("errOutOfBounds")
                  ELSE IF roundOff < 0 \/ roundOff > Len(b) THEN SignPanic
                  ELSE LET roundI32 == BEUint32(Slice(b, roundOff, roundOff + 4))
                       IN  IF Int32Negative(roundI32) THEN SignFail("errNegativeRound")
                           ELSE [kind |-> BLOCK, level |-> levelI32,
                                 round |-> roundI32, signBytes |-> b, err |-> "nil"]
    ELSE DecodeAndValidateSignPayload(b)

\* one call of DecodeAndValidateSignPayload on the 32-bit build
DoDecodeSignPayload32 ==
    /\ decoded = NotDecoded
    /\ decoded' = DecodeAndValidateSignPayload32(raw)
    /\ UNCHANGED raw

NextPayload32 ==
    DoDecodeSignPayload32 /\ UNCHANGED payloadRest

SpecPayload32 == InitPayload /\ [][NextPayload32]_vars

\* C37: on the 32-bit build too the call does not panic, and it gets to the
\* round of a block (returns it, or refuses it as negative) only when
\* fitness_off + fitness_len + 4 <= len(payload).
C37_NoPanic32 ==
    decoded # NotDecoded =>
        /\ decoded.err # SignPanic.err
        /\ ((decoded.kind = BLOCK \/ decoded.err = "errNegativeRound")
            /\ Len(raw) >= blockMinLen /\ raw[1] = BLOCK)
              => ~U32Gt(FieldAt(fitnessOff), Len(raw) - (fitnessOff + 4))


---------------------------------------------------------------------------
\* SpecStopTwice: Stop called twice, the second call while the first is
\* waiting or after it has returned; the loops and the workers only exit

\* what a step of the second Stop leaves alone outside the broker
againRest == <<stashVars, keyVars, poolVars, lifeVars, wmVars, payloadVars,
               httpVars, ffsVars, wdVars, takeHist>>

\* the second call: b.cancel() again, and a second goroutine that waits for
\* the loops
StopAgainCall ==
    /\ ~crashed
    /\ stop.pc # "idle"
    /\ stopAgain.pc = "idle"
    /\ ctxDone' = TRUE
    /\ stopAgain' = [pc |-> "waiting", closer |-> "wait_loops", how |-> ""]
    /\ UNCHANGED <<crashed, waiters, slot, unconfirmedRequests,
                   processingRequests, writeChan, workChan, workChanClosed,
                   worker, caller, readLoop, writerLoop, reaper, stop, hEnq,
                   hHandler, hDelivered, hRecv, hOverlap, hPanicked, hAtStop,
                   againRest>>

\* the second goroutine has received from the three closed channels and
\* runs close(b.workChan): closing a closed channel panics
CloseWorkChanAgain ==
    /\ ~crashed
    /\ stopAgain.closer = "wait_loops"
    /\ readLoop = "exited" /\ writerLoop.pc = "exited" /\ reaper = "exited"
    /\ IF workChanClosed
       THEN /\ crashed' = TRUE
            /\ stopAgain' = [stopAgain EXCEPT !.closer = "panicked"]
            /\ UNCHANGED workChanClosed
       ELSE /\ workChanClosed' = TRUE
            /\ stopAgain' = [stopAgain EXCEPT !.closer = "wait_workers"]
            /\ UNCHANGED crashed
    /\ UNCHANGED <<ctxDone, waiters, slot, unconfirmedRequests,
                   processingRequests, writeChan, workChan, worker, caller,
                   readLoop, writerLoop, reaper, stop, hEnq, hHandler,
                   hDelivered, hRecv, hOverlap, hPanicked, hAtStop, againRest>>

\* the first goroutine runs close(b.workChan) after the second one did
CloseWorkChanClosed ==
    /\ ~crashed
    /\ stop.closer = "wait_loops"
    /\ readLoop = "exited" /\ writerLoop.pc = "exited" /\ reaper = "exited"
    /\ workChanClosed
    /\ crashed' = TRUE
    /\ stop' = [stop EXCEPT !.closer = "panicked"]
    /\ UNCHANGED <<ctxDone, waiters, slot, unconfirmedRequests,
                   processingRequests, writeChan, workChan, workChanClosed,
                   worker, caller, readLoop, writerLoop, reaper, hEnq,
                   hHandler, hDelivered, hRecv, hOverlap, hPanicked, hAtStop,
                   againVars, againRest>>

\* workersDone is closed: the second goroutine closes its done and the
\* second Stop's select receives from it
StopAgainReturnClean ==
    /\ ~crashed
    /\ stopAgain.pc = "waiting"
    /\ stopAgain.closer = "wait_workers"
    /\ \A w \in Workers : worker[w].pc = "exited"
    /\ stopAgain' = [pc |-> "returned", closer |-> "done", how |-> "clean"]
    /\ UNCHANGED <<brokerVars, againRest>>

\* the second Stop's select received from time.After(stopTimeout)
StopAgainReturnTimeout ==
    /\ ~crashed
    /\ stopAgain.pc = "waiting"
    /\ stopAgain' = [stopAgain EXCEPT !.pc = "returned", !.how = "timeout"]
    /\ UNCHANGED <<brokerVars, againRest>>

NextStopTwice ==
    \/ ReadLoopExit
    \/ WriterLoopExit
    \/ ReaperExit
    \/ \E w \in Workers : WorkerExit(w)
    \/ StopCall
    \/ CloseWorkChan
    \/ CloseWorkChanClosed
    \/ StopReturnClean
    \/ StopReturnTimeout
    \/ StopAgainCall
    \/ CloseWorkChanAgain
    \/ StopAgainReturnClean
    \/ StopAgainReturnTimeout

SpecStopTwice == InitBroker /\ [][NextStopTwice]_vars

\* C38: with Stop called a second time, at once or after the first call
\* returned, no call panics: close(b.workChan) never runs on the closed
\* channel.
C38_StopTwice ==
    stopAgain.pc # "idle" => ~crashed


---------------------------------------------------------------------------
\* SpecKeys: the handlers of GET /keys/:tz4 and POST /keys/:tz4
\* (app/host/http.go), with what each of them asks of the gadget

\* an answer, and whether the handler made a request through the broker
Answer(status, body, called) ==
    [status |-> status, body |-> body, called |-> called]

NoAnswer == Answer(0, "none", FALSE)

\* the handler of GET /keys/:tz4: common.ReqStatus is called before the
\* allow-list is looked at
GetKey(req) ==
    IF req.tz4 = "" THEN Answer(StatusBadRequest, "error", FALSE)
    ELSE IF req.outcome # "ok"
         THEN Answer(StatusInternalServerError, "error", TRUE)
    ELSE IF req.tz4 \notin AllowedTZ4 THEN Answer(StatusNotFound, "error", TRUE)
    ELSE IF ~req.listed THEN Answer(StatusNotFound, "error", TRUE)
    ELSE Answer(StatusOK, "public_key", TRUE)

\* the handler of POST /keys/:tz4 got as far as common.ReqSign
ReqSignReached(req) ==
    req.tz4 # "" /\ req.bodyOk /\ req.hexOk /\ req.tz4 \in AllowedTZ4

KeysHandler(req) ==
    IF req.method = "GET" THEN GetKey(req)
    ELSE Answer(PostKey(req).status, PostKey(req).body, ReqSignReached(req))

\* the requests of both methods; listed: the gadget's status has the key
SampleKeyRequests ==
    { [method |-> "GET", tz4 |-> t, bodyOk |-> TRUE, hexOk |-> TRUE,
       outcome |-> o, code |-> 0, sigLen |-> 0, listed |-> k] :
         t \in SampleTZ4, o \in {"ok", "remote", "other"}, k \in BOOLEAN }
    \cup
    { [method |-> "POST", tz4 |-> r.tz4, bodyOk |-> r.bodyOk,
       hexOk |-> r.hexOk, outcome |-> r.outcome, code |-> r.code,
       sigLen |-> r.sigLen, listed |-> TRUE] : r \in SampleRequests }

InitKeys ==
    /\ httpReq \in SampleKeyRequests
    /\ httpResp = NoAnswer
    /\ WmIdle /\ PayloadIdle /\ FfsIdle /\ WdIdle /\ AgainIdle
    /\ BrokerIdle /\ StashIdle /\ KeychainIdle /\ PoolIdle

\* the handler of the request's method runs
DoKeys ==
    /\ httpResp = NoAnswer
    /\ httpResp' = KeysHandler(httpReq)
    /\ UNCHANGED httpReq

NextKeys == DoKeys /\ UNCHANGED httpRest

SpecKeys == InitKeys /\ [][NextKeys]_vars

\* C39: a request of either method for an address outside the allow-list is
\* answered 404 and makes no request to the gadget through the broker,
\* whatever the gadget would answer.
C39_NotAllowedNoCall ==
    (httpResp # NoAnswer /\ httpReq.tz4 # "" /\ httpReq.tz4 \notin AllowedTZ4)
        => (httpResp.status = StatusNotFound /\ ~httpResp.called)


---------------------------------------------------------------------------
\* SpecDrain: the read loop writes what it read into the stash and calls
\* processStash, which calls ReadPayload until the stash has no further frame

\* processStash is in its loop
Draining == hTrail # "start" /\ ~DrainEnded

\* the outcomes after which processStash calls ReadPayload again
DrainContinues == res.err \in {"ErrInvalidPayload", "ErrInvalidPayloadSize", "nil"}

\* one turn of processStash's loop: ReadPayload, and for a frame the send
\* to workChan, which drops the frame when the queue is full
ProcessStashStep ==
    /\ Draining
    /\ ~ctxDone
    /\ DoReadPayload
    /\ LET r == ReadPayload(buf) IN
       workChan' = IF r.err = "nil" /\ Len(workChan) < workQueueSize
                   THEN Append(workChan, Frame(r.type, r.id, r.payload))
                   ELSE workChan
    /\ UNCHANGED <<ctxDone, crashed, waiters, slot, unconfirmedRequests,
                   processingRequests, writeChan, workChanClosed, worker,
                   caller, readLoop, writerLoop, reaper, stop, hEnq, hHandler,
                   hDelivered, hRecv, hOverlap, hPanicked, hAtStop, takeHist,
                   keyVars, lifeVars, poolVars, sideVars>>

\* the read loop reads again only when processStash has returned
NextDrain ==
    \/ ~Draining /\ WriteNoise
       /\ UNCHANGED <<keyVars, brokerVars, lifeVars, poolVars, sideVars>>
    \/ ~Draining /\ WriteFrame
       /\ UNCHANGED <<keyVars, brokerVars, lifeVars, poolVars, sideVars>>
    \/ ~Draining /\ WriteSizedHeader
       /\ UNCHANGED <<keyVars, brokerVars, lifeVars, poolVars, sideVars>>
    \/ ProcessStashStep

\* processStash is straight-line code in the read loop's goroutine: its next
\* ReadPayload call is made. This is weak fairness of ProcessStashStep with
\* its enabling condition, Draining, written out.
FairDrain == []<>(~Draining) \/ []<><<ProcessStashStep>>_vars

SpecDrain == InitBroker /\ [][NextDrain]_vars /\ FairDrain

\* C40: every turn of processStash's loop after which it goes on
\* (ErrInvalidPayload, ErrInvalidPayloadSize, or a frame) has taken at least
\* one byte out of the stash, and every processStash call comes to its return
\* on ErrNoPayloadFound or ErrIncompletePayload.
C40_ProcessStashTerminates ==
    /\ [][(ProcessStashStep /\ DrainContinues') => Len(buf') < Len(buf)]_vars
    /\ Draining ~> DrainEnded

\* processStash returned after it had resynchronised and delivered a frame
C40_Witness ==
    /\ DrainEnded
    /\ hGot # {}
    /\ hConsumed > Len(TheFrame.frame)
    /\ workChan # <<>>

===========================================================================
